---- MODULE Spec2Model ----
(***************************************************************************)
(* Disaster-management server: the mutation handlers of routes/disasters,  *)
(* the websocket registry of routes/websocket, the cache helpers and the   *)
(* enrichment adapters of services/, and the priority classifier.          *)
(***************************************************************************)
EXTENDS Integers, Sequences, FiniteSets, TLC

VARIABLES
    disasters,   \* the "disasters" table: a function from the ids present to rows
    nextId,      \* the serial the store assigns to the next inserted row
    sockets,     \* routes/websocket.ts `sockets`: a JS Set, kept in insertion order
    conn,        \* transport state of every websocket connection
    inbox,       \* the messages each connection has received, in order
    req,         \* the in-flight and finished mutation requests
    cache,       \* the "cache" table: a function from the keys present to rows
    now,         \* the wall clock, in minutes
    calls,       \* the adapter calls made so far, oldest first
    written,     \* per cache key, the last setCachedData the store accepted
    got,         \* the last getCachedData call and what it returned
    env,         \* process.env: which API credentials are configured
    text,        \* the input handed to the priority classifier
    flagged,     \* the classifier's answer for `text`
    hook,        \* the refs, sockets and timers of the client's useWebSocket hook
    list         \* the client's disaster list and what it has processed so far

cacheLog == <<calls, written, got, env>>
classifier == <<text, flagged>>
browser == <<hook, list>>
vars == <<disasters, nextId, sockets, conn, inbox, req, cache, now, cacheLog, classifier,
          browser>>

-----------------------------------------------------------------------------
(* Bounds of the model *)

MaxReq == 2      \* mutation requests per behaviour
NumConns == 2    \* websocket connections per behaviour of the registry
NumWatchers == 1 \* websocket connections per behaviour of the handlers
NumUsers == 2    \* how many entries of `users` issue requests

Reqs == 1..MaxReq
Conns == DOMAIN conn

-----------------------------------------------------------------------------
(* JavaScript values: a tag and a payload *)

JUndef == [t |-> "undefined", v |-> 0]
JNull == [t |-> "null", v |-> 0]
JNum(n) == [t |-> "number", v |-> n]
JStr(s) == [t |-> "string", v |-> s]
JBool(b) == [t |-> "boolean", v |-> b]
JArr(a) == [t |-> "array", v |-> a]
JObj(o) == [t |-> "object", v |-> o]

\* JS truthiness, as used by `if (x)`, `!x` and `x || y`
Truthy(j) ==
    CASE j.t = "undefined" -> FALSE
      [] j.t = "null" -> FALSE
      [] j.t = "number" -> j.v # 0
      [] j.t = "string" -> j.v # <<>>
      [] j.t = "boolean" -> j.v
      [] OTHER -> TRUE

\* a || b
JOr(a, b) == IF Truthy(a) THEN a ELSE b

-----------------------------------------------------------------------------
(* Strings are sequences of characters *)

sFlood == <<"F", "l", "o", "o", "d">>
sWater == <<"W", "a", "t", "e", "r">>
sMumbai == <<"M", "u", "m", "b", "a", "i">>

Upper == <<"A","B","C","D","E","F","G","H","I","J","K","L","M",
           "N","O","P","Q","R","S","T","U","V","W","X","Y","Z">>
Lower == <<"a","b","c","d","e","f","g","h","i","j","k","l","m",
           "n","o","p","q","r","s","t","u","v","w","x","y","z">>

LowerChar(c) ==
    IF \E i \in 1..26 : Upper[i] = c
    THEN Lower[CHOOSE i \in 1..26 : Upper[i] = c]
    ELSE c

\* String.prototype.toLowerCase
toLowerCase(s) == [i \in 1..Len(s) |-> LowerChar(s[i])]

\* String.prototype.includes
includes(s, sub) ==
    \E i \in 0..(Len(s) - Len(sub)) : SubSeq(s, i + 1, i + Len(sub)) = sub

-----------------------------------------------------------------------------
(* lib/mockData.ts *)

users == <<
    [id |-> "netrunnerX", role |-> "admin"],
    [id |-> "reliefAdmin", role |-> "admin"],
    [id |-> "contributor1", role |-> "contributor"],
    [id |-> "contributor2", role |-> "contributor"] >>

NoUser == [id |-> "", role |-> ""]

\* The handlers take the requesting user as a parameter (disasterRouter hands
\* them users[0]); the model lets NumUsers entries of `users` call them,
\* an admin and a contributor among them.
Identities == {users[i] : i \in 2..(NumUsers + 1)}

-----------------------------------------------------------------------------
(* services/cache.ts *)

\* Times are kept in minutes: the code's milliseconds divided by 60000, which
\* is exact because every time of the model is a whole number of minutes.
MinutesPerHour == 60
TickMinutes == 30      \* the clock advances in half-hour steps
MaxTicks == 2

\* process.env: GEMINI_API_KEY and TWITTER_BEARER_TOKEN are set or not
Envs == [GEMINI_API_KEY : BOOLEAN, TWITTER_BEARER_TOKEN : BOOLEAN]
FullEnv == [GEMINI_API_KEY |-> TRUE, TWITTER_BEARER_TOKEN |-> TRUE]

NoCacheRow == [value |-> JNull, expires_at |-> 0]

\* a lookup that hands the store's error to its caller: data?.value || error
getCachedDataReturnsError(rows, key, clock, storeOk) ==
    LET data == IF storeOk /\ key \in DOMAIN rows /\ rows[key].expires_at > clock
                THEN rows[key] ELSE NoCacheRow
    IN  JOr(data.value, IF storeOk THEN JNull ELSE JObj([message |-> "store error"]))

\* a lookup whose expiry filter is turned around: only expired rows match
getCachedDataExpiredOnly(rows, key, clock, storeOk) ==
    LET data == IF storeOk /\ key \in DOMAIN rows /\ rows[key].expires_at < clock
                THEN rows[key] ELSE NoCacheRow
    IN  JOr(data.value, JNull)

\* getCachedData(key): the row with this key whose expires_at is after the
\* clock, or no row; a store error leaves `data` null as well
getCachedData(rows, key, clock, storeOk) ==
    LET data == IF storeOk /\ key \in DOMAIN rows /\ rows[key].expires_at > clock
                THEN rows[key] ELSE NoCacheRow
    IN  JOr(data.value, JNull)

\* setCachedData(key, value, ttlHours): upsert of {key, value, expires_at}
setCachedData(rows, key, value, ttlHours, clock, storeOk) ==
    LET expiresAt == clock + ttlHours * MinutesPerHour
    IN  IF storeOk
        THEN [k \in DOMAIN rows \cup {key} |->
                 IF k = key THEN [value |-> value, expires_at |-> expiresAt]
                 ELSE rows[k]]
        ELSE rows

DefaultTtlHours == 1

\* no getCachedData call yet
NoGet == [key |-> <<>>, result |-> JNull, at |-> 0, ok |-> FALSE,
          last |-> [value |-> JUndef, ttl |-> 0, at |-> 0]]

\* `${prefix}${Buffer.from(input).toString('base64')}`: the encoding is
\* one-to-one, so a key is the pair of its prefix and its input
cacheKey(prefix, input) == <<prefix, input>>

-----------------------------------------------------------------------------
(* services/geo.ts *)

\* coordinates are kept in units of 1e-4 degree
cMumbai == <<728777, 190760>>
cOther == <<-1222431, 374419>>

\* what the Nominatim request can answer: a status (0: no response at all)
\* and, with status 200, the list of matches
GeoAnswers ==
    { [status |-> 200, data |-> <<cMumbai>>],
      [status |-> 200, data |-> <<cOther>>],
      [status |-> 200, data |-> <<>>],
      [status |-> 403, data |-> <<>>],
      [status |-> 500, data |-> <<>>] }

\* the answers the mutation handlers are run against: a match and a denial
HandlerGeoAnswers == {a \in GeoAnswers : a.status = 403 \/ a.data = <<cMumbai>>}

\* `Geocoding failed: ${error.message}`
sGeocodingFailed ==
    <<"G", "e", "o", "c", "o", "d", "i", "n", "g", " ", "f", "a", "i", "l",
      "e", "d", ":", " ">>

\* `Location not found: ${locationName}`
sLocationNotFound ==
    <<"L", "o", "c", "a", "t", "i", "o", "n", " ", "n", "o", "t", " ", "f",
      "o", "u", "n", "d", ":", " ">>

sRequestFailed ==
    <<"R", "e", "q", "u", "e", "s", "t", " ", "f", "a", "i", "l", "e", "d",
      " ", "w", "i", "t", "h", " ", "s", "t", "a", "t", "u", "s", " ", "c",
      "o", "d", "e", " ">>

\* the decimal digits of a status code
statusDigits(status) ==
    LET digit(d) == <<"0", "1", "2", "3", "4", "5", "6", "7", "8", "9">>[d + 1]
    IN  <<digit(status \div 100), digit((status \div 10) % 10), digit(status % 10)>>

\* error.message of a request that axios rejects for its status
axiosMessage(status) == sRequestFailed \o statusDigits(status)

\* a geocodeLocation in which a refused cache write raises inside the try
\* block and ends in its catch
geocodeLocationWriteThrows(locationName, rows, clock, answer, readOk, writeOk) ==
    LET key == cacheKey("geocode:", locationName)
        cached == getCachedData(rows, key, clock, readOk)
    IN  IF Truthy(cached)
        THEN [threw |-> FALSE, value |-> cached, message |-> <<>>,
              rows |-> rows, remote |-> 0, outcome |-> "hit", writes |-> 0,
              cached |-> cached]
        ELSE IF answer.status = 200 /\ Len(answer.data) # 0 /\ writeOk
        THEN LET coords == JArr(answer.data[1])
             IN  [threw |-> FALSE, value |-> coords, message |-> <<>>,
                  rows |-> setCachedData(rows, key, coords, DefaultTtlHours, clock, writeOk),
                  remote |-> 1, outcome |-> "remote", writes |-> 1,
                  cached |-> cached]
        ELSE [threw |-> TRUE, value |-> JUndef,
              message |-> sGeocodingFailed \o
                          (IF answer.status = 200 /\ Len(answer.data) = 0
                           THEN sLocationNotFound \o locationName
                           ELSE axiosMessage(answer.status)),
              rows |-> rows, remote |-> 1, outcome |-> "threw", writes |-> 0,
              cached |-> cached]

\* geocodeLocation(locationName): the value returned or the error thrown,
\* the cache rows afterwards, the numbers of remote requests and of
\* setCachedData calls made and what its getCachedData call returned
geocodeLocation(locationName, rows, clock, answer, readOk, writeOk) ==
    LET key == cacheKey("geocode:", locationName)
        cached == getCachedData(rows, key, clock, readOk)
    IN  IF Truthy(cached)
        THEN [threw |-> FALSE, value |-> cached, message |-> <<>>,
              rows |-> rows, remote |-> 0, outcome |-> "hit", writes |-> 0,
              cached |-> cached]
        ELSE IF answer.status = 200 /\ Len(answer.data) # 0
        THEN LET coords == JArr(answer.data[1])
             IN  [threw |-> FALSE, value |-> coords, message |-> <<>>,
                  rows |-> setCachedData(rows, key, coords, DefaultTtlHours, clock, writeOk),
                  remote |-> 1, outcome |-> "remote", writes |-> 1,
              cached |-> cached]
        ELSE [threw |-> TRUE, value |-> JUndef,
              message |-> sGeocodingFailed \o
                          (IF answer.status = 200
                           THEN sLocationNotFound \o locationName
                           ELSE axiosMessage(answer.status)),
              rows |-> rows, remote |-> 1, outcome |-> "threw", writes |-> 0,
              cached |-> cached]

-----------------------------------------------------------------------------
(* routes/websocket.ts *)

Message(type, data, r) == [type |-> type, data |-> data, req |-> r]

\* `data[0]` of an empty result: undefined
NoRow == [id |-> 0, title |-> JUndef, description |-> JUndef,
          location_name |-> JUndef, location |-> JNull,
          owner_id |-> "", audit_trail |-> <<>>]

SeqToSet(q) == {q[i] : i \in 1..Len(q)}

\* sockets.add(ws): a Set keeps insertion order and holds no element twice
SetAdd(q, c) == IF c \in SeqToSet(q) THEN q ELSE Append(q, c)

\* sockets.delete(ws)
SetDelete(q, c) == SelectSeq(q, LAMBDA x : x # c)

\* `for (const ws of sockets) ws.send(msg)`: the sends happen in insertion
\* order; send throws on a broken connection and the loop has no handler, so
\* the first throw ends it. Yields the inboxes afterwards and whether it threw.
RECURSIVE SendLoop(_, _, _, _, _)
SendLoop(q, i, state, boxes, msg) ==
    IF i > Len(q) THEN [inbox |-> boxes, threw |-> FALSE]
    ELSE IF state[q[i]] = "broken" THEN [inbox |-> boxes, threw |-> TRUE]
    ELSE SendLoop(q, i + 1, state,
                  [boxes EXCEPT ![q[i]] = Append(@, msg)], msg)

\* a loop that starts at the second member of the set
BroadcastSkipsFirst(q, state, boxes, msg) == SendLoop(q, 2, state, boxes, msg)

Broadcast(q, state, boxes, msg) == SendLoop(q, 1, state, boxes, msg)

\* an open handler that registers the connection and sends no acknowledgement
OpenWithoutAck ==
    \E c \in Conns :
        /\ conn[c] = "idle"
        /\ \A d \in Conns : d < c => conn[d] # "idle"
        /\ sockets' = SetAdd(sockets, c)
        /\ conn' = [conn EXCEPT ![c] = "open"]
        /\ UNCHANGED <<disasters, nextId, inbox, req, cache, now, cacheLog, classifier, browser>>

\* websocketHandler.open
Open ==
    \E c \in Conns :
        /\ conn[c] = "idle"
        /\ \A d \in Conns : d < c => conn[d] # "idle"
        /\ sockets' = SetAdd(sockets, c)
        /\ inbox' = [inbox EXCEPT ![c] = Append(@, Message("connected", JUndef, 0))]
        /\ conn' = [conn EXCEPT ![c] = "open"]
        /\ UNCHANGED <<disasters, nextId, req, cache, now, cacheLog, classifier, browser>>

\* the transport of a connection fails: from now on ws.send throws, and the
\* close event has not been delivered yet
Break ==
    \E c \in Conns :
        /\ conn[c] = "open"
        /\ conn' = [conn EXCEPT ![c] = "broken"]
        /\ UNCHANGED <<disasters, nextId, sockets, inbox, req, cache, now, cacheLog, classifier, browser>>

\* websocketHandler.close
Close ==
    \E c \in Conns :
        /\ conn[c] \in {"open", "broken"}
        /\ sockets' = SetDelete(sockets, c)
        /\ conn' = [conn EXCEPT ![c] = "closed"]
        /\ UNCHANGED <<disasters, nextId, inbox, req, cache, now, cacheLog, classifier, browser>>

-----------------------------------------------------------------------------
(* routes/disasters.ts *)

Body(title, description, location_name) ==
    [title |-> title, description |-> description, location_name |-> location_name]

NoBody == Body(JUndef, JUndef, JUndef)

\* the request bodies the model sends
PlainBody == Body(JStr(sFlood), JStr(sWater), JStr(<<>>))

Bodies ==
    { Body(JStr(sFlood), JStr(sWater), JStr(sMumbai)),
      PlainBody,
      Body(JStr(<<>>), JUndef, JStr(sMumbai)) }

IdleReq ==
    [kind |-> "none", pc |-> "idle", user |-> NoUser, id |-> 0, body |-> NoBody,
     location |-> JNull, error |-> FALSE, data |-> NoRow, outcome |-> "",
     owner |-> "", geocoded |-> 0, geoThrew |-> FALSE, wrote |-> FALSE,
     atCommit |-> {}, atBroadcast |-> {}, dead |-> {}]

\* requests are taken in the order of their slots
FreeSlot(r) == req[r].pc = "idle" /\ \A q \in Reqs : q < r => req[q].pc # "idle"

\* the ids a request may name: some are assigned when it arrives, some not
TargetIds == 1..MaxReq

\* the step after the body is read: geocode when a location name is present
AfterBody(b) == IF Truthy(b.location_name) THEN "geocode" ELSE "write"

\* a handler that requires the title only
PostBeginTitleOnly(U, B) ==
    \E r \in Reqs, u \in U, b \in B :
        /\ FreeSlot(r)
        /\ req' = [req EXCEPT ![r] =
              IF ~Truthy(b.title)
              THEN [@ EXCEPT !.kind = "post", !.user = u, !.body = b,
                             !.pc = "done", !.outcome = "ValidationError"]
              ELSE [@ EXCEPT !.kind = "post", !.user = u, !.body = b,
                             !.pc = AfterBody(b)]]
        /\ UNCHANGED <<disasters, nextId, sockets, conn, inbox, cache, now, cacheLog, classifier, browser>>

\* handleDisasterPost up to its first remote call: parse and validate the body
PostBeginWith(U, B) ==
    \E r \in Reqs, u \in U, b \in B :
        /\ FreeSlot(r)
        /\ req' = [req EXCEPT ![r] =
              IF ~Truthy(b.title) \/ ~Truthy(b.description)
              THEN [@ EXCEPT !.kind = "post", !.user = u, !.body = b,
                             !.pc = "done", !.outcome = "ValidationError"]
              ELSE [@ EXCEPT !.kind = "post", !.user = u, !.body = b,
                             !.pc = AfterBody(b)]]
        /\ UNCHANGED <<disasters, nextId, sockets, conn, inbox, cache, now, cacheLog, classifier, browser>>

\* select("owner_id").eq("id", id).single(): the owner of the row, "" for no row
OwnerOf(id) == IF id \in DOMAIN disasters THEN disasters[id].owner_id ELSE ""

\* a permission check that lets only admins through
AuthorizeAdminOnly(u, id) ==
    IF id \notin DOMAIN disasters THEN "NotFound"
    ELSE IF u.role # "admin" THEN "Forbidden"
    ELSE "ok"

\* a permission check that lets admins through before the lookup
AuthorizeAdminBeforeLookup(u, id) ==
    IF u.role = "admin" THEN "ok"
    ELSE IF id \notin DOMAIN disasters THEN "NotFound"
    ELSE IF disasters[id].owner_id # u.id THEN "Forbidden"
    ELSE "ok"

\* the ownership lookup and the permission check shared by PUT and DELETE
Authorize(u, id) ==
    IF id \notin DOMAIN disasters THEN "NotFound"
    ELSE IF u.role # "admin" /\ disasters[id].owner_id # u.id THEN "Forbidden"
    ELSE "ok"

\* handleDisasterPut up to the geocoding call
PutBeginWith(U, B) ==
    \E r \in Reqs, u \in U, id \in TargetIds, b \in B :
        /\ FreeSlot(r)
        /\ req' = [req EXCEPT ![r] =
              IF Authorize(u, id) # "ok"
              THEN [@ EXCEPT !.kind = "put", !.user = u, !.id = id, !.body = b,
                             !.owner = OwnerOf(id),
                             !.pc = "done", !.outcome = Authorize(u, id)]
              ELSE [@ EXCEPT !.kind = "put", !.user = u, !.id = id, !.body = b,
                             !.owner = OwnerOf(id), !.pc = AfterBody(b)]]
        /\ UNCHANGED <<disasters, nextId, sockets, conn, inbox, cache, now, cacheLog, classifier, browser>>

\* handleDisasterDelete up to the store delete
DeleteBeginWith(U) ==
    \E r \in Reqs, u \in U, id \in TargetIds :
        /\ FreeSlot(r)
        /\ req' = [req EXCEPT ![r] =
              IF Authorize(u, id) # "ok"
              THEN [@ EXCEPT !.kind = "delete", !.user = u, !.id = id,
                             !.owner = OwnerOf(id),
                             !.pc = "done", !.outcome = Authorize(u, id)]
              ELSE [@ EXCEPT !.kind = "delete", !.user = u, !.id = id,
                             !.owner = OwnerOf(id), !.pc = "write"]]
        /\ UNCHANGED <<disasters, nextId, sockets, conn, inbox, cache, now, cacheLog, classifier, browser>>

\* what a handler does with the outcome g of `await geocodeLocation(...)`:
\* handleDisasterPost catches a throw and goes on without a location,
\* handleDisasterPut has no handler and the throw ends the request
AfterGeocode(q, g) ==
    IF ~g.threw
    THEN [q EXCEPT !.location = g.value, !.geocoded = @ + 1, !.pc = "write"]
    ELSE IF q.kind = "post"
    THEN [q EXCEPT !.location = JNull, !.geocoded = @ + 1, !.geoThrew = TRUE,
                   !.pc = "write"]
    ELSE [q EXCEPT !.geocoded = @ + 1, !.geoThrew = TRUE,
                   !.pc = "done", !.outcome = "GeocodeError"]

\* `location = await geocodeLocation(location_name)` of POST and PUT
Geocode ==
    \E r \in Reqs, a \in HandlerGeoAnswers :
        /\ req[r].pc = "geocode"
        /\ LET g == geocodeLocation(req[r].body.location_name.v, cache, now, a, TRUE, TRUE)
           IN  /\ req' = [req EXCEPT ![r] = AfterGeocode(@, g)]
               /\ cache' = g.rows
        /\ UNCHANGED <<disasters, nextId, sockets, conn, inbox, now, cacheLog, classifier, browser>>

\* `SRID=4326;POINT(${location[0]} ${location[1]})` or null
Point(location) ==
    IF Truthy(location)
    THEN JObj([srid |-> 4326, x |-> location.v[1], y |-> location.v[2]])
    ELSE JNull

\* a property whose value is undefined is left out of the JSON sent to the
\* store: an insert leaves the column null, an update leaves it as it was
InsertColumn(v) == IF v.t = "undefined" THEN JNull ELSE v
UpdateColumn(old, v) == IF v.t = "undefined" THEN old ELSE v

\* the row handleDisasterPost inserts
disasterData(q, id) ==
    [id |-> id,
     title |-> InsertColumn(q.body.title),
     description |-> InsertColumn(q.body.description),
     location_name |-> InsertColumn(q.body.location_name),
     location |-> Point(q.location),
     owner_id |-> q.user.id,
     audit_trail |-> << [action |-> "created", by |-> q.user.id] >>]

\* an update that hands the record to the identity that sends it
updatedRowTakesOwnership(row, q) ==
    [row EXCEPT !.title = UpdateColumn(@, q.body.title),
                !.description = UpdateColumn(@, q.body.description),
                !.location_name = UpdateColumn(@, q.body.location_name),
                !.location = Point(q.location),
                !.owner_id = q.user.id]

\* the row after handleDisasterPut's update({title, location_name, location, description, tags})
updatedRow(row, q) ==
    [row EXCEPT !.title = UpdateColumn(@, q.body.title),
                !.description = UpdateColumn(@, q.body.description),
                !.location_name = UpdateColumn(@, q.body.location_name),
                !.location = Point(q.location)]

RemoveKey(f, k) == [x \in DOMAIN f \ {k} |-> f[x]]

\* The store executes the write of request r: insert([disasterData]).select(),
\* update({...}).eq("id", id).select() or delete().eq("id", id). The handler
\* is still suspended in its await; `error` and `data` are what it will see.
Persist ==
    \E r \in Reqs, ok \in BOOLEAN :
        /\ req[r].pc = "write"
        /\ IF ~ok
           THEN /\ req' = [req EXCEPT ![r] = [@ EXCEPT !.pc = "written", !.error = TRUE,
                                                       !.atCommit = SeqToSet(sockets)]]
                /\ UNCHANGED <<disasters, nextId>>
           ELSE CASE req[r].kind = "post" ->
                     LET row == disasterData(req[r], nextId)
                     IN  /\ disasters' = [x \in DOMAIN disasters \cup {nextId} |->
                                             IF x = nextId THEN row ELSE disasters[x]]
                         /\ nextId' = nextId + 1
                         /\ req' = [req EXCEPT ![r] = [@ EXCEPT !.pc = "written", !.data = row,
                                        !.wrote = TRUE, !.atCommit = SeqToSet(sockets)]]
                  [] req[r].kind = "put" ->
                     LET id == req[r].id
                         hit == id \in DOMAIN disasters
                         row == IF hit THEN updatedRow(disasters[id], req[r]) ELSE NoRow
                     IN  /\ disasters' = IF hit THEN [disasters EXCEPT ![id] = row] ELSE disasters
                         /\ nextId' = nextId
                         /\ req' = [req EXCEPT ![r] = [@ EXCEPT !.pc = "written", !.data = row,
                                        !.wrote = hit, !.atCommit = SeqToSet(sockets)]]
                  [] OTHER ->
                     LET id == req[r].id
                     IN  /\ disasters' = RemoveKey(disasters, id)
                         /\ nextId' = nextId
                         /\ req' = [req EXCEPT ![r] = [@ EXCEPT !.pc = "written",
                                        !.wrote = id \in DOMAIN disasters,
                                        !.atCommit = SeqToSet(sockets)]]
        /\ UNCHANGED <<sockets, conn, inbox, cache, now, cacheLog, classifier, browser>>

\* the event a handler broadcasts after its write
EventOf(q, r) ==
    CASE q.kind = "post" -> Message("disaster:new", IF q.data = NoRow THEN JUndef ELSE JObj(q.data), r)
      [] q.kind = "put" -> Message("disaster:update", IF q.data = NoRow THEN JUndef ELSE JObj(q.data), r)
      [] OTHER -> Message("disaster:delete", JNum(q.id), r)

\* a handler that broadcasts before it looks at the store's error
ResumeBroadcastsFirst ==
    \E r \in Reqs :
        /\ req[r].pc = "written"
        /\ LET b == Broadcast(sockets, conn, inbox, EventOf(req[r], r))
           IN  /\ inbox' = b.inbox
               /\ req' = [req EXCEPT ![r] = [@ EXCEPT !.pc = "done",
                     !.atBroadcast = SeqToSet(sockets),
                     !.dead = {c \in SeqToSet(sockets) : conn[c] = "broken"},
                     !.outcome = IF req[r].error THEN "PersistenceError"
                                 ELSE IF ~b.threw THEN "Done"
                                 ELSE IF req[r].kind = "post" THEN "InternalError"
                                 ELSE "SendError"]]
        /\ UNCHANGED <<disasters, nextId, sockets, conn, cache, now, cacheLog, classifier, browser>>

\* The handler of request r resumes after its write: it returns the store's
\* error, or broadcasts to `sockets` and returns. A throw in the loop is
\* caught by handleDisasterPost's try/catch and is unhandled in PUT and DELETE.
Resume ==
    \E r \in Reqs :
        /\ req[r].pc = "written"
        /\ IF req[r].error
           THEN /\ req' = [req EXCEPT ![r] = [@ EXCEPT !.pc = "done", !.outcome = "PersistenceError"]]
                /\ inbox' = inbox
           ELSE LET b == Broadcast(sockets, conn, inbox, EventOf(req[r], r))
                IN  /\ inbox' = b.inbox
                    /\ req' = [req EXCEPT ![r] = [@ EXCEPT !.pc = "done",
                          !.atBroadcast = SeqToSet(sockets),
                          !.dead = {c \in SeqToSet(sockets) : conn[c] = "broken"},
                          !.outcome = IF ~b.threw THEN "Done"
                                      ELSE IF req[r].kind = "post" THEN "InternalError"
                                      ELSE "SendError"]]
        /\ UNCHANGED <<disasters, nextId, sockets, conn, cache, now, cacheLog, classifier, browser>>

-----------------------------------------------------------------------------
(* client hooks/useWebSocket.ts *)

maxReconnectAttempts == 5
reconnectDelay == 1000
debounceDelay == 100
NormalClosure == 1000
AbnormalClosure == 1006

MaxSockets == 7
MaxManual == 2

RECURSIVE pow2(_)
pow2(n) == IF n = 0 THEN 1 ELSE 2 * pow2(n - 1)

\* The hook after its mount effect ran connect(): the debounce timer is
\* pending and no socket exists yet. `ws` holds every socket the hook made,
\* with its readyState and how it came to close; `timers` the pending
\* timeouts; wsRef and timerRef are 0 for null.
Mounted ==
    [mounted |-> TRUE, attempts |-> 0, isConnecting |-> FALSE,
     wsRef |-> 0, timerRef |-> 1, ws |-> <<>>,
     timers |-> {[id |-> 1, kind |-> "connect", delay |-> debounceDelay,
                  code |-> 0]},
     manual |-> 0, last |-> "mount"]

\* The handle of the next setTimeout: handles grow with the order of the
\* calls among the pending timeouts, and a handle is free again once its
\* timeout has fired or was cleared and a later call overwrote the ref.
nextTimer(h) ==
    1 + (CHOOSE n \in {0} \cup {t.id : t \in h.timers} :
             \A t \in h.timers : t.id <= n)

\* clearTimeout(reconnectTimeoutRef.current), a no-op for a null ref and for a
\* timer that has fired
clearTimeout(h) == {t \in h.timers : t.id # h.timerRef}

\* connect()
connect(h) ==
    IF h.isConnecting \/ (h.wsRef # 0 /\ h.ws[h.wsRef].state = "open")
    THEN h
    ELSE [h EXCEPT !.timers = clearTimeout(h) \cup
                       {[id |-> nextTimer(h), kind |-> "connect", delay |-> debounceDelay,
                         code |-> 0]},
                   !.timerRef = nextTimer(h)]

\* wsRef.current.close(1000, ...) followed by wsRef.current = null: the socket
\* starts closing and its close event comes later
closeCurrent(h) ==
    IF h.wsRef = 0 THEN h
    ELSE [h EXCEPT !.ws = [h.ws EXCEPT ![h.wsRef] =
                             IF h.ws[h.wsRef].state \in {"connecting", "open"}
                             THEN [state |-> "closing", was |-> h.ws[h.wsRef].state,
                                   clientClosed |-> TRUE]
                             ELSE h.ws[h.wsRef]],
                   !.wsRef = 0]

\* the codes the close event of socket s can carry: 1000 when a closing
\* handshake completed, 1006 when the connection was lost or was never
\* established, which includes close() called while still connecting
CloseCodes(h, s) ==
    CASE h.ws[s].state = "connecting" -> {AbnormalClosure}
      [] h.ws[s].state = "open" -> {NormalClosure, AbnormalClosure}
      [] h.ws[s].state = "closing" /\ h.ws[s].was = "connecting" -> {AbnormalClosure}
      [] h.ws[s].state = "closing" /\ h.ws[s].was = "open" -> {NormalClosure, AbnormalClosure}
      [] OTHER -> {}

\* ws.onerror (when the connection failed) and ws.onclose of socket s
onclose(h, s, code) ==
    LET closed == [h EXCEPT !.isConnecting = FALSE,
                            !.ws = [h.ws EXCEPT ![s] = [state |-> "closed", was |-> "",
                                                        clientClosed |-> FALSE]]]
    IN  IF code # NormalClosure /\ h.attempts < maxReconnectAttempts
        THEN [closed EXCEPT
                 !.timers = h.timers \cup
                     {[id |-> nextTimer(h), kind |-> "retry",
                       delay |-> reconnectDelay * pow2(h.attempts),
                       code |-> code]},
                 !.timerRef = nextTimer(h)]
        ELSE closed

HookStep(h) ==
    /\ hook' = h
    /\ UNCHANGED <<disasters, nextId, sockets, conn, inbox, req, cache, now, cacheLog,
                   classifier, list>>

\* Timer ids grow in the order of the setTimeout calls. A pending timeout can
\* be the next to fire unless one that was set earlier with a delay no longer
\* than its own is still pending.
CanFire(t) == \A u \in hook.timers : ~(u.id < t.id /\ u.delay <= t.delay)

\* the debounce timeout of connect() fires: new WebSocket(url)
FireConnect ==
    \E t \in hook.timers :
        /\ t.kind = "connect"
        /\ CanFire(t)
        /\ Len(hook.ws) < MaxSockets
        /\ HookStep([hook EXCEPT
               !.timers = hook.timers \ {t},
               !.isConnecting = TRUE,
               !.ws = Append(hook.ws, [state |-> "connecting", was |-> "",
                                       clientClosed |-> FALSE]),
               !.wsRef = Len(hook.ws) + 1,
               !.last = "connect"])

\* the timeout set by onclose fires: reconnectAttemptsRef.current++; connect()
FireRetry ==
    \E t \in hook.timers :
        /\ t.kind = "retry"
        /\ CanFire(t)
        /\ HookStep(connect([hook EXCEPT !.timers = hook.timers \ {t},
                                         !.attempts = hook.attempts + 1,
                                         !.last = "retry"]))

\* ws.onopen
SocketOpens ==
    \E s \in 1..Len(hook.ws) :
        /\ hook.ws[s].state = "connecting"
        /\ HookStep([hook EXCEPT !.ws = [hook.ws EXCEPT ![s] = [@ EXCEPT !.state = "open"]],
                                 !.isConnecting = FALSE,
                                 !.attempts = 0,
                                 !.last = "open"])

\* the close event of a socket is delivered
SocketCloses ==
    \E s \in 1..Len(hook.ws) : \E code \in CloseCodes(hook, s) :
        HookStep([onclose(hook, s, code) EXCEPT !.last = "close"])

\* reconnect(), from the header's button
ManualReconnect ==
    /\ hook.mounted
    /\ hook.manual < MaxManual
    /\ HookStep([connect(closeCurrent([hook EXCEPT !.timers = clearTimeout(hook),
                                                  !.timerRef = 0,
                                                  !.attempts = 0]))
                    EXCEPT !.manual = hook.manual + 1, !.last = "reconnect"])

\* the cleanup of the mount effect
Unmount ==
    /\ hook.mounted
    /\ HookStep([closeCurrent([hook EXCEPT !.timers = clearTimeout(hook),
                                          !.timerRef = 0])
                    EXCEPT !.isConnecting = FALSE, !.mounted = FALSE, !.last = "unmount"])

-----------------------------------------------------------------------------
(* client App.tsx and components/DisastersTab.tsx: the disaster list *)

\* The App state after construction: `disasters` is [], the initial fetch is
\* under way, no websocket message and no HTTP response was processed yet.
NoList == [items |-> <<>>, fetched |-> FALSE, read |-> 0, answered |-> {}]

\* the connection of the server model that is this client's websocket
ClientConn == 1

\* setDisasters((prev) => [newDisaster, ...prev]) of handleNewDisaster and of
\* onDisasterCreated
prepend(items, d) == <<d>> \o items

\* prev.map((d) => (d.id === updatedDisaster.id ? updatedDisaster : d))
replaceById(items, d) ==
    [i \in 1..Len(items) |-> IF items[i].v.id = d.v.id THEN d ELSE items[i]]

\* prev.filter((d) => d.id !== id)
removeById(items, id) == SelectSeq(items, LAMBDA d : d.v.id # id)

\* the rows of the store as GET /disasters returns them
RECURSIVE RowsFrom(_)
RowsFrom(ids) ==
    IF ids = {} THEN <<>>
    ELSE LET id == CHOOSE x \in ids : \A y \in ids : x <= y
         IN  <<JObj(disasters[id])>> \o RowsFrom(ids \ {id})

ListStep(l) ==
    /\ list' = l
    /\ UNCHANGED <<disasters, nextId, sockets, conn, inbox, req, cache, now, cacheLog,
                   classifier, hook>>

\* the initial fetch of App's effect: setDisasters(response.data)
ClientFetch ==
    /\ ~list.fetched
    /\ ListStep([list EXCEPT !.items = RowsFrom(DOMAIN disasters), !.fetched = TRUE])

\* ws.onmessage of the hook for the next message of the client's connection
ClientOnMessage ==
    /\ ClientConn \in Conns
    /\ list.read < Len(inbox[ClientConn])
    /\ LET m == inbox[ClientConn][list.read + 1]
       IN  ListStep([list EXCEPT
               !.read = list.read + 1,
               !.items = CASE m.type = "disaster:new" -> prepend(list.items, m.data)
                           [] m.type = "disaster:update" -> replaceById(list.items, m.data)
                           [] m.type = "disaster:delete" -> removeById(list.items, m.data.v)
                           [] OTHER -> list.items])

\* the response of one of the client's own requests arrives: handleCreateDisaster
\* calls onDisasterCreated(response.data), handleDeleteDisaster calls
\* onDisasterDeleted(id); an error answer is caught and changes nothing
ClientOnResponse ==
    \E r \in Reqs :
        /\ req[r].pc = "done" /\ r \notin list.answered
        /\ req[r].kind \in {"post", "delete"}
        /\ ListStep([list EXCEPT
               !.answered = list.answered \cup {r},
               !.items = IF req[r].outcome # "Done" THEN list.items
                         ELSE IF req[r].kind = "post"
                         THEN prepend(list.items, JObj(req[r].data))
                         ELSE removeById(list.items, req[r].id)])

\* the requests of the client, from the form and the delete button of
\* DisastersTab, which App renders once the initial fetch is over
ClientPost == list.fetched /\ PostBeginWith(Identities, {PlainBody})
ClientDelete == list.fetched /\ DeleteBeginWith(Identities)

-----------------------------------------------------------------------------
(* The handlers: requests of several identities and bodies, one watcher *)

EmptyFn == [x \in {} |-> 0]

\* The table outlives the server: it starts empty or with a row that an
\* earlier handleDisasterPost inserted.
InitialRows(U) ==
    { disasterData([IdleReq EXCEPT !.user = u, !.body = PlainBody], 1) : u \in U }

InitWith(C, U, E) ==
    /\ \/ disasters = EmptyFn /\ nextId = 1
       \/ \E row \in InitialRows(U) : disasters = (1 :> row) /\ nextId = 2
    /\ sockets = <<>>
    /\ conn = [c \in C |-> "idle"]
    /\ inbox = [c \in C |-> <<>>]
    /\ req = [r \in Reqs |-> IdleReq]
    /\ cache = EmptyFn
    /\ now = 0
    /\ calls = <<>>
    /\ written = EmptyFn
    /\ got = NoGet
    /\ env \in E
    /\ text = <<>>
    /\ flagged = FALSE
    /\ hook = Mounted
    /\ list = NoList

PostBegin == PostBeginWith(Identities, Bodies)
PutBegin == PutBeginWith(Identities, Bodies)
DeleteBegin == DeleteBeginWith(Identities)

Init == InitWith(1..NumWatchers, Identities, {FullEnv})

Next ==
    \/ Open
    \/ Break
    \/ Close
    \/ PostBegin
    \/ PutBegin
    \/ DeleteBegin
    \/ Geocode
    \/ Persist
    \/ Resume

Spec == Init /\ [][Next]_vars

-----------------------------------------------------------------------------
(* The registry: the requests disasterRouter makes for users[0], interleaved *)
(* with websocket connections opening, breaking and closing                  *)

RouterUser == {users[1]}

RouterPost == PostBeginWith(RouterUser, {PlainBody})
RouterPut == PutBeginWith(RouterUser, {PlainBody})
RouterDelete == DeleteBeginWith(RouterUser)

InitRegistry == InitWith(1..NumConns, RouterUser, {FullEnv})

NextRegistry ==
    \/ Open
    \/ Break
    \/ Close
    \/ RouterPost
    \/ RouterPut
    \/ RouterDelete
    \/ Persist
    \/ Resume

SpecRegistry == InitRegistry /\ [][NextRegistry]_vars

-----------------------------------------------------------------------------
(* Properties of the handlers and the registry *)

\* how many events of request r connection c has received
Count(r, c) == Cardinality({i \in 1..Len(inbox[c]) : inbox[c][i].req = r})

\* request r has run its broadcast loop
Broadcasted(r) ==
    req[r].pc = "done" /\ req[r].outcome \in {"Done", "InternalError", "SendError"}

\* C1: when the send to one observer throws during a broadcast, that observer
\* is dropped from the socket set and every other observer that was in the
\* set at that moment still receives the event.
C1_FailedSendIsIsolated ==
    \A r \in Reqs :
        (Broadcasted(r) /\ req[r].dead # {}) =>
            /\ \A c \in req[r].dead : c \notin SeqToSet(sockets)
            /\ \A c \in req[r].atBroadcast \ req[r].dead : Count(r, c) = 1

\* C2 as stated: after a successful delete, every observer registered when
\* the store delete committed holds exactly one disaster:delete event of it,
\* and every other observer holds none.
C2_DeleteReachesCommitTimeObservers ==
    \A r \in Reqs :
        (req[r].kind = "delete" /\ req[r].pc = "done" /\ req[r].outcome = "Done") =>
            \A c \in Conns : Count(r, c) = IF c \in req[r].atCommit THEN 1 ELSE 0

\* C2 as amended: after a delete that returned success, every observer that
\* was in the socket set when the handler resumed and ran its broadcast loop
\* holds exactly one disaster:delete event of it, carrying the record's id,
\* and every other observer holds none.
C2_DeleteReachesBroadcastTimeObservers ==
    \A r \in Reqs :
        (req[r].kind = "delete" /\ req[r].pc = "done" /\ req[r].outcome = "Done") =>
            \A c \in Conns :
                /\ Count(r, c) = IF c \in req[r].atBroadcast THEN 1 ELSE 0
                /\ \A i \in 1..Len(inbox[c]) :
                       inbox[c][i].req = r =>
                           /\ inbox[c][i].type = "disaster:delete"
                           /\ inbox[c][i].data = JNum(req[r].id)

\* a delete succeeded, an observer that opened between the store's commit and
\* the broadcast holds its event, and one that opened afterwards holds none
C2_Witness ==
    \E r \in Reqs, c \in Conns, d \in Conns :
        /\ req[r].kind = "delete" /\ req[r].outcome = "Done" /\ req[r].wrote
        /\ c \in req[r].atBroadcast \ req[r].atCommit
        /\ Count(r, c) = 1
        /\ d \notin req[r].atBroadcast /\ conn[d] = "open" /\ Count(r, d) = 0

C6_FailedWriteIsTerminal ==
    /\ [](\A r \in Reqs : req[r].error =>
            /\ \A c \in Conns : Count(r, c) = 0
            /\ req[r].pc = "done" => req[r].outcome = "PersistenceError")
    /\ [][\A r \in Reqs : (req'[r] # req[r] /\ req'[r].error) =>
            /\ disasters' = disasters /\ nextId' = nextId
            /\ inbox' = inbox]_vars

\* a create whose insert failed has ended while an observer was connected
C6_Witness ==
    \E r \in Reqs, c \in Conns :
        /\ req[r].kind = "post" /\ req[r].error /\ req[r].pc = "done"
        /\ c \in req[r].atCommit /\ conn[c] = "open"

\* C8: no broadcast raises an error, and every observer in the socket set
\* when a broadcast starts receives exactly one copy of the event.
C8_ExactlyOneCopyNoError ==
    \A r \in Reqs :
        Broadcasted(r) =>
            /\ req[r].outcome = "Done"
            /\ \A c \in req[r].atBroadcast : Count(r, c) = 1

\* C10: a request whose geocodeLocation call threw still goes on to the store
\* write with location null, and geocodeLocation is not called for an absent
\* or empty location name.
C10_GeocodeFailureNeverAborts ==
    \A r \in Reqs :
        /\ req[r].geoThrew =>
              /\ req[r].location = JNull
              /\ req[r].pc \in {"write", "written", "done"}
              /\ req[r].outcome # "GeocodeError"
        /\ ~Truthy(req[r].body.location_name) => req[r].geocoded = 0

\* the events of mutations that connection c holds, as positions of its inbox
Events(c) == {i \in 1..Len(inbox[c]) : inbox[c][i].req \in Reqs}

\* C11: every disaster event an observer holds is of a request whose store
\* write was committed on its record before the event was sent: the insert
\* added the row, the update changed the row, the delete removed the row.
C11_EventOnlyAfterCommittedWrite ==
    \A c \in Conns : \A i \in Events(c) :
        LET r == inbox[c][i].req
        IN  /\ req[r].pc = "done"
            /\ ~req[r].error
            /\ req[r].wrote

\* C12: the first message a connection holds is the "connected"
\* acknowledgement, every disaster event comes after it, and a connection
\* holds an event only if it was in the socket set when that event was
\* broadcast.
C12_AckComesFirst ==
    \A c \in Conns :
        /\ inbox[c] # <<>> => inbox[c][1].type = "connected"
        /\ \A i \in Events(c) :
               /\ i > 1
               /\ c \in req[inbox[c][i].req].atBroadcast

\* a connection that opened after one mutation was broadcast and before
\* another holds its acknowledgement, then the second event, and not the first
C12_Witness ==
    \E c \in Conns, r \in Reqs, q \in Reqs :
        /\ req[r].outcome = "Done" /\ req[q].outcome = "Done"
        /\ c \notin req[r].atBroadcast /\ Count(r, c) = 0
        /\ Len(inbox[c]) = 2
        /\ inbox[c][1].type = "connected"
        /\ inbox[c][2].req = q

-----------------------------------------------------------------------------
(* The cache helpers on their own: writes, reads and the passing of time *)

CacheKeys == {cacheKey("geocode:", sMumbai), cacheKey("gemini:location:", sFlood)}

\* values a caller can hand to setCachedData, the falsy ones among them
CacheValues == {JStr(<<>>), JNum(0), JBool(FALSE), JNull, JStr(sMumbai)}

\* the ttlHours arguments in use: the default, and fetchTweets' 3600
Ttls == {DefaultTtlHours, 3600}

NoWrite == [value |-> JUndef, ttl |-> 0, at |-> 0]
LastWrite(key) == IF key \in DOMAIN written THEN written[key] ELSE NoWrite

\* a caller awaits setCachedData(key, value, ttlHours); the store may refuse
CacheSet ==
    \E key \in CacheKeys, value \in CacheValues, ttl \in Ttls, ok \in BOOLEAN :
        /\ cache' = setCachedData(cache, key, value, ttl, now, ok)
        /\ written' = IF ok
                      THEN [k \in DOMAIN written \cup {key} |->
                               IF k = key THEN [value |-> value, ttl |-> ttl, at |-> now]
                               ELSE written[k]]
                      ELSE written
        /\ UNCHANGED <<disasters, nextId, sockets, conn, inbox, req, now, calls, got, env, classifier, browser>>

\* a caller awaits getCachedData(key); the store may fail to answer
CacheGet ==
    \E key \in CacheKeys, ok \in BOOLEAN :
        /\ got' = [key |-> key, result |-> getCachedData(cache, key, now, ok),
                   at |-> now, ok |-> ok, last |-> LastWrite(key)]
        /\ UNCHANGED <<disasters, nextId, sockets, conn, inbox, req, cache, now, calls, written, env, classifier, browser>>

\* half an hour passes
Tick ==
    /\ now < MaxTicks * TickMinutes
    /\ now' = now + TickMinutes
    /\ UNCHANGED <<disasters, nextId, sockets, conn, inbox, req, cache, cacheLog, classifier, browser>>

InitCache == InitWith(1..NumWatchers, {}, {FullEnv})

NextCache ==
    \/ CacheSet
    \/ CacheGet
    \/ Tick

SpecCache == InitCache /\ [][NextCache]_vars

\* C4: a getCachedData that the store answers returns exactly the value of
\* the last accepted setCachedData of that key, falsy values included, while
\* the clock is before that write's time plus its ttl, and null from then on.
C4_GetReturnsWhatWasSet ==
    (got.ok /\ got.last # NoWrite) =>
        IF got.at < got.last.at + got.last.ttl * MinutesPerHour
        THEN got.result = got.last.value
        ELSE got.result = JNull

-----------------------------------------------------------------------------
(* services/helpers.ts: the priority classifier *)

priorityKeywords == <<
    <<"u", "r", "g", "e", "n", "t">>,
    <<"S", "O", "S">>,
    <<"h", "e", "l", "p", " ", "n", "e", "e", "d", "e", "d">>,
    <<"i", "m", "m", "e", "d", "i", "a", "t", "e">> >>

\* a classifier that lower-cases the content but compares with the keyword as written
detectPriorityKeywordAsWritten(content) ==
    \E k \in 1..Len(priorityKeywords) :
        includes(toLowerCase(content), priorityKeywords[k])

\* priorityKeywords.some(keyword => content.toLowerCase().includes(keyword.toLowerCase()))
detectPriority(content) ==
    \E k \in 1..Len(priorityKeywords) :
        includes(toLowerCase(content), toLowerCase(priorityKeywords[k]))

\* The texts classified: a beginning, a middle and an end, where the middle is
\* a keyword in some spelling, a near miss or no keyword at all.
TextHeads ==
    { <<>>,
      <<"x">>,
      <<"n", "e", "e", "d", " ">> }

TextMiddles ==
    { <<"u", "r", "g", "e", "n", "t">>,
      <<"U", "R", "G", "E", "N", "T">>,
      <<"U", "r", "g", "e", "n", "t">>,
      <<"u", "r", "g", "e", "n">>,
      <<"u", " ", "r", "g", "e", "n", "t">>,
      <<"S", "O", "S">>,
      <<"s", "o", "s">>,
      <<"S", "o", "S">>,
      <<"S", ".", "O", ".", "S">>,
      <<"h", "e", "l", "p", " ", "n", "e", "e", "d", "e", "d">>,
      <<"H", "e", "l", "p", " ", "N", "e", "e", "d", "e", "d">>,
      <<"H", "E", "L", "P", " ", "N", "E", "E", "D", "E", "D">>,
      <<"h", "e", "l", "p", "n", "e", "e", "d", "e", "d">>,
      <<"h", "e", "l", "p", " ", " ", "n", "e", "e", "d", "e", "d">>,
      <<"i", "m", "m", "e", "d", "i", "a", "t", "e">>,
      <<"I", "M", "M", "E", "D", "I", "A", "T", "E">>,
      <<"I", "m", "m", "e", "d", "i", "a", "t">>,
      <<"s", "u", "n", "n", "y", " ", "d", "a", "y">>,
      <<>> }

TextTails ==
    { <<>>,
      <<" ", "n", "o", "w">>,
      <<"!">> }

Texts == {h \o m \o t : h \in TextHeads, m \in TextMiddles, t \in TextTails}

\* a caller classifies a text
Classify ==
    \E t \in Texts :
        /\ text' = t
        /\ flagged' = detectPriority(t)
        /\ UNCHANGED <<disasters, nextId, sockets, conn, inbox, req, cache, now, cacheLog,
                       browser>>

InitPriority == InitWith(1..NumWatchers, {}, {FullEnv})

NextPriority == Classify

SpecPriority == InitPriority /\ [][NextPriority]_vars

\* two characters that are the same letter in either case, or the same character
SameIgnoringCase(a, b) ==
    \/ a = b
    \/ \E n \in 1..26 : {a, b} = {Upper[n], Lower[n]}

\* keyword k occurs in t at position i, ignoring case
OccursAt(t, k, i) ==
    /\ i + Len(k) - 1 <= Len(t)
    /\ \A j \in 1..Len(k) : SameIgnoringCase(t[i + j - 1], k[j])

\* C9: the classifier's answer is true exactly when the text contains, ignoring
\* case, one of "urgent", "SOS", "help needed", "immediate" as a substring.
C9_PriorityIffKeyword ==
    flagged <=>
        \E k \in 1..Len(priorityKeywords), i \in 1..Len(text) :
            OccursAt(text, priorityKeywords[k], i)

\* "need SOS now" has been classified as priority
C9_Witness ==
    /\ text = <<"n", "e", "e", "d", " ", "S", "O", "S", " ", "n", "o", "w">>
    /\ flagged

-----------------------------------------------------------------------------
(* String helpers used by the adapters *)

Min(a, b) == IF a < b THEN a ELSE b

Whitespace == {" ", "\n", "\t"}

RECURSIVE trimStart(_)
trimStart(s) ==
    IF s # <<>> /\ Head(s) \in Whitespace THEN trimStart(Tail(s)) ELSE s

RECURSIVE trimEnd(_)
trimEnd(s) ==
    IF s # <<>> /\ s[Len(s)] \in Whitespace
    THEN trimEnd(SubSeq(s, 1, Len(s) - 1))
    ELSE s

\* String.prototype.trim
trim(s) == trimEnd(trimStart(s))

\* String.prototype.split with a one-character separator
RECURSIVE split(_, _)
split(s, sep) ==
    IF \E i \in 1..Len(s) : s[i] = sep
    THEN LET i == CHOOSE i \in 1..Len(s) :
                      s[i] = sep /\ \A j \in 1..(i - 1) : s[j] # sep
         IN  <<SubSeq(s, 1, i - 1)>> \o split(SubSeq(s, i + 1, Len(s)), sep)
    ELSE <<s>>

\* Array.prototype.join
RECURSIVE join(_, _)
join(a, sep) ==
    IF a = <<>> THEN <<>>
    ELSE IF Len(a) = 1 THEN a[1]
    ELSE a[1] \o sep \o join(Tail(a), sep)

\* Array.prototype.slice(start, end) for 0 <= start <= end
slice(a, start, end) == SubSeq(a, start + 1, Min(end, Len(a)))

\* s.replace(/^prefix/, '')
stripPrefix(s, prefix) ==
    IF Len(s) >= Len(prefix) /\ SubSeq(s, 1, Len(prefix)) = prefix
    THEN SubSeq(s, Len(prefix) + 1, Len(s))
    ELSE s

\* s.replace(/suffix$/, '')
stripSuffix(s, suffix) ==
    IF Len(s) >= Len(suffix) /\ SubSeq(s, Len(s) - Len(suffix) + 1, Len(s)) = suffix
    THEN SubSeq(s, 1, Len(s) - Len(suffix))
    ELSE s

sUnknownLocation ==
    <<"U", "n", "k", "n", "o", "w", "n", " ", "L", "o", "c", "a", "t", "i",
      "o", "n">>

sFloodInMumbai ==
    <<"F", "l", "o", "o", "d", " ", "i", "n", " ", "M", "u", "m", "b", "a",
      "i">>

sFireNear ==
    <<"F", "i", "r", "e", " ", "N", "E", "A", "R", " ", "t", "h", "e", " ",
      "o", "l", "d", " ", "b", "r", "i", "d", "g", "e">>

sStuckIn ==
    <<"W", "e", " ", "a", "r", "e", " ", "s", "t", "u", "c", "k", " ", "i",
      "n">>

sNoWater ==
    <<"N", "o", " ", "w", "a", "t", "e", "r">>

sPaddedMumbai ==
    <<" ", "M", "u", "m", "b", "a", "i", "\n">>

-----------------------------------------------------------------------------
(* services/ai.ts: extractLocation *)

\* what the Gemini request can answer: a status and, with status 200,
\* candidates[0].content.parts[0].text (undefined when there is no candidate)
GeminiLocationAnswers ==
    { [status |-> 200, text |-> JStr(sMumbai)],
      [status |-> 200, text |-> JStr(sPaddedMumbai)],
      [status |-> 200, text |-> JStr(<<" ">>)],
      [status |-> 200, text |-> JUndef],
      [status |-> 500, text |-> JUndef] }

\* text?.trim()
trimOptional(j) == IF j.t = "string" THEN JStr(trim(j.v)) ELSE JUndef

locationKeywords == {<<"i", "n">>, <<"a", "t">>, <<"n", "e", "a", "r">>,
                     <<"a", "r", "o", "u", "n", "d">>}

\* a scan that also looks at the last word
locationFallbackScansLastWord(description) ==
    LET words == split(description, " ")
        hits == {i \in 0..(Len(words) - 1) :
                    toLowerCase(words[i + 1]) \in locationKeywords}
    IN  IF hits # {}
        THEN LET i == CHOOSE i \in hits : \A j \in hits : i <= j
             IN  join(slice(words, i + 1, i + 3), <<" ">>)
        ELSE sUnknownLocation

\* the catch block: the two words after the first locative keyword that is
\* not the last word, or "Unknown Location"
locationFallback(description) ==
    LET words == split(description, " ")
        hits == {i \in 0..(Len(words) - 2) :
                    toLowerCase(words[i + 1]) \in locationKeywords}
    IN  IF hits # {}
        THEN LET i == CHOOSE i \in hits : \A j \in hits : i <= j
             IN  join(slice(words, i + 1, i + 3), <<" ">>)
        ELSE sUnknownLocation

\* extractLocation(description)
extractLocation(description, rows, clock, answer, readOk, writeOk) ==
    LET key == cacheKey("gemini:location:", description)
        cached == getCachedData(rows, key, clock, readOk)
        found == trimOptional(answer.text)
    IN  IF Truthy(cached)
        THEN [threw |-> FALSE, value |-> cached, message |-> <<>>,
              rows |-> rows, remote |-> 0, outcome |-> "hit", writes |-> 0,
              cached |-> cached]
        ELSE IF answer.status = 200 /\ Truthy(found)
        THEN [threw |-> FALSE, value |-> found, message |-> <<>>,
              rows |-> setCachedData(rows, key, found, DefaultTtlHours, clock, writeOk),
              remote |-> 1, outcome |-> "remote", writes |-> 1,
              cached |-> cached]
        ELSE [threw |-> FALSE, value |-> JStr(locationFallback(description)),
              message |-> <<>>, rows |-> rows, remote |-> 1, outcome |-> "fallback", writes |-> 0,
              cached |-> cached]

-----------------------------------------------------------------------------
(* services/ai.ts: verifyImage *)

sImageUrl ==
    <<"h", "t", "t", "p", ":", "/", "/", "i", "m", "g", "/", "1", ".", "j",
      "p", "g">>

sKeyMissing ==
    <<"S", "e", "r", "v", "e", "r", " ", "c", "o", "n", "f", "i", "g", "u",
      "r", "a", "t", "i", "o", "n", " ", "e", "r", "r", "o", "r", ":", " ",
      "G", "e", "m", "i", "n", "i", " ", "A", "P", "I", " ", "k", "e", "y",
      " ", "m", "i", "s", "s", "i", "n", "g", ".">>

sApiError ==
    <<"U", "n", "a", "b", "l", "e", " ", "t", "o", " ", "a", "n", "a", "l",
      "y", "z", "e", " ", "i", "m", "a", "g", "e", " ", "d", "u", "e", " ",
      "t", "o", " ", "a", "n", " ", "A", "P", "I", " ", "e", "r", "r", "o",
      "r", ".", " ", "T", "h", "e", " ", "i", "m", "a", "g", "e", " ", "m",
      "a", "y", " ", "b", "e", " ", "i", "n", "a", "c", "c", "e", "s", "s",
      "i", "b", "l", "e", " ", "o", "r", " ", "a", "n", " ", "i", "n", "v",
      "a", "l", "i", "d", " ", "f", "o", "r", "m", "a", "t", ".">>

\* the Markdown code fence; "backtick" stands for the grave accent character
sFenceOpen ==
    <<"backtick", "backtick", "backtick", "j", "s", "o", "n", "\n">>

sFenceClose ==
    <<"\n", "backtick", "backtick", "backtick">>

tObject ==
    <<"{", "\"", "a", "u", "t", "h", "e", "n", "t", "i", "c", "i", "t",
      "y", "S", "c", "o", "r", "e", "\"", ":", "8", "5", ",", "\"", "i",
      "s", "L", "i", "k", "e", "l", "y", "A", "u", "t", "h", "e", "n", "t",
      "i", "c", "\"", ":", "t", "r", "u", "e", ",", "\"", "a", "n", "a",
      "l", "y", "s", "i", "s", "\"", ":", "\"", "o", "k", "\"", "}">>

tProse ==
    <<"L", "o", "o", "k", "s", " ", "r", "e", "a", "l">>

tZero ==
    <<"0">>

tFalse ==
    <<"f", "a", "l", "s", "e">>

tNull ==
    <<"n", "u", "l", "l">>

tEmptyString ==
    <<"\"", "\"">>


Verdict(score, authentic, analysis) ==
    JObj([authenticityScore |-> score, isLikelyAuthentic |-> authentic,
          analysis |-> JStr(analysis)])

\* JSON.parse on the texts the remote is modelled to answer with; any other text
\* is not JSON and makes it throw
JSONparse(s) ==
    CASE s = tObject -> [threw |-> FALSE,
                          value |-> Verdict(JNum(85), JBool(TRUE), <<"o", "k">>)]
      [] s = tZero -> [threw |-> FALSE, value |-> JNum(0)]
      [] s = tFalse -> [threw |-> FALSE, value |-> JBool(FALSE)]
      [] s = tNull -> [threw |-> FALSE, value |-> JNull]
      [] s = tEmptyString -> [threw |-> FALSE, value |-> JStr(<<>>)]
      [] OTHER -> [threw |-> TRUE, value |-> JUndef]

\* what the two requests can answer: whether the image download succeeded,
\* the status of the Gemini request and the text of its first candidate
GeminiImageAnswers ==
    { [download |-> FALSE, status |-> 0, text |-> JUndef],
      [download |-> TRUE, status |-> 500, text |-> JUndef],
      [download |-> TRUE, status |-> 200, text |-> JUndef],
      [download |-> TRUE, status |-> 200, text |-> JStr(tObject)],
      [download |-> TRUE, status |-> 200,
       text |-> JStr(sFenceOpen \o tObject \o sFenceClose)],
      [download |-> TRUE, status |-> 200, text |-> JStr(tProse)],
      [download |-> TRUE, status |-> 200, text |-> JStr(tZero)],
      [download |-> TRUE, status |-> 200, text |-> JStr(tFalse)],
      [download |-> TRUE, status |-> 200, text |-> JStr(tNull)] }

\* reading result.authenticityScore throws a TypeError on null and undefined
ReadingFieldThrows(j) == j.t \in {"null", "undefined"}

\* verifyImage(imageUrl)
verifyImage(imageUrl, rows, clock, answer, readOk, writeOk, apiKey) ==
    LET key == cacheKey("gemini:verify:", imageUrl)
        cached == getCachedData(rows, key, clock, readOk)
        requests == IF answer.download THEN 2 ELSE 1
        found == trimOptional(answer.text)
        parsed == JSONparse(stripSuffix(stripPrefix(found.v, sFenceOpen), sFenceClose))
        result == IF parsed.threw
                  THEN Verdict(JNull, JNull, found.v)
                  ELSE parsed.value
        degraded == Verdict(JNull, JBool(FALSE), sApiError)
        afterResult == setCachedData(rows, key, result, DefaultTtlHours, clock, writeOk)
    IN  IF Truthy(cached)
        THEN [threw |-> FALSE, value |-> cached, message |-> <<>>,
              rows |-> rows, remote |-> 0, outcome |-> "hit", writes |-> 0,
              cached |-> cached]
        ELSE IF ~apiKey
        THEN [threw |-> FALSE, value |-> Verdict(JNull, JBool(FALSE), sKeyMissing),
              message |-> <<>>, rows |-> rows, remote |-> 0, outcome |-> "unconfigured", writes |-> 0,
              cached |-> cached]
        ELSE IF ~answer.download \/ answer.status # 200 \/ ~Truthy(found)
        THEN [threw |-> FALSE, value |-> degraded, message |-> <<>>,
              rows |-> setCachedData(rows, key, degraded, DefaultTtlHours, clock, writeOk),
              remote |-> requests, outcome |-> "fallback", writes |-> 1,
              cached |-> cached]
        ELSE IF ReadingFieldThrows(result)
        THEN [threw |-> FALSE, value |-> degraded, message |-> <<>>,
              rows |-> setCachedData(afterResult, key, degraded, DefaultTtlHours,
                                     clock, writeOk),
              remote |-> requests, outcome |-> "fallback", writes |-> 2,
              cached |-> cached]
        ELSE [threw |-> FALSE, value |-> result, message |-> <<>>,
              rows |-> afterResult, remote |-> requests, outcome |-> "remote", writes |-> 1,
              cached |-> cached]

-----------------------------------------------------------------------------
(* services/twitter.ts: fetchTweets *)

sQuery ==
    <<"f", "l", "o", "o", "d">>


TwitterTtlHours == 3600

RawTweet == [id |-> JStr(<<"9">>), text |-> JStr(sFlood),
             author_id |-> JStr(<<"7">>), created_at |-> JStr(<<"t">>)]
RawUser == [id |-> JStr(<<"7">>), username |-> JStr(<<"b", "o", "b">>)]

\* what the search request can answer: a status and, with status 200, the
\* `data` and `includes.users` of the body, each possibly missing
TwitterAnswers ==
    { [status |-> 200, data |-> JUndef, users |-> JUndef],
      [status |-> 200, data |-> JArr(<<>>), users |-> JUndef],
      [status |-> 200, data |-> JArr(<<RawTweet>>), users |-> JUndef],
      [status |-> 200, data |-> JArr(<<RawTweet>>), users |-> JArr(<<RawUser>>)],
      [status |-> 429, data |-> JUndef, users |-> JUndef],
      [status |-> 500, data |-> JUndef, users |-> JUndef] }

\* userMap[author_id] || undefined
usernameOf(knownUsers, authorId) ==
    IF \E i \in 1..Len(knownUsers) : knownUsers[i].id = authorId
    THEN LET i == CHOOSE i \in 1..Len(knownUsers) :
                      knownUsers[i].id = authorId /\
                      \A j \in (i + 1)..Len(knownUsers) : knownUsers[j].id # authorId
         IN  JOr(knownUsers[i].username, JUndef)
    ELSE JUndef

\* tweets.map(tweet => ({...}))
mapTweets(tweets, knownUsers) ==
    [i \in 1..Len(tweets) |->
        JObj([id |-> tweets[i].id, text |-> tweets[i].text,
              author_id |-> tweets[i].author_id,
              created_at |-> tweets[i].created_at,
              username |-> usernameOf(knownUsers, tweets[i].author_id)])]

\* a rate-limit answer that is reported as an empty list
RateLimitAsEmptyList == JArr(<<>>)

RateLimitMarker == JObj([rateLimit |-> JBool(TRUE)])

\* fetchTweets(query)
fetchTweets(query, rows, clock, answer, readOk, writeOk, bearerToken) ==
    LET key == cacheKey("twitter:search:", query)
        cached == getCachedData(rows, key, clock, readOk)
        tweets == JOr(answer.data, JArr(<<>>)).v
        knownUsers == JOr(answer.users, JArr(<<>>)).v
        result == JArr(mapTweets(tweets, knownUsers))
    IN  IF ~bearerToken
        THEN [threw |-> FALSE, value |-> JArr(<<>>), message |-> <<>>,
              rows |-> rows, remote |-> 0, outcome |-> "unconfigured", writes |-> 0,
              cached |-> JUndef]
        ELSE IF Truthy(cached)
        THEN [threw |-> FALSE, value |-> cached, message |-> <<>>,
              rows |-> rows, remote |-> 0, outcome |-> "hit", writes |-> 0,
              cached |-> cached]
        ELSE IF answer.status = 200
        THEN [threw |-> FALSE, value |-> result, message |-> <<>>,
              rows |-> setCachedData(rows, key, result, TwitterTtlHours, clock, writeOk),
              remote |-> 1, outcome |-> "remote", writes |-> 1,
              cached |-> cached]
        ELSE IF answer.status = 429
        THEN [threw |-> FALSE, value |-> RateLimitMarker, message |-> <<>>,
              rows |-> rows, remote |-> 1, outcome |-> "rateLimited", writes |-> 0,
              cached |-> cached]
        ELSE [threw |-> FALSE, value |-> JArr(<<>>), message |-> <<>>,
              rows |-> rows, remote |-> 1, outcome |-> "fallback", writes |-> 0,
              cached |-> cached]

-----------------------------------------------------------------------------
(* The adapters called one after another against one cache *)

MaxCalls == 2

sNewDelhi == <<"N", "e", "w", " ", "D", "e", "l", "h", "i">>
sAtlantis == <<"A", "t", "l", "a", "n", "t", "i", "s">>

Descriptions == {sFloodInMumbai, sNoWater}
Locations == {sMumbai, sNewDelhi, sAtlantis}
Images == {sImageUrl}
Queries == {sQuery}

\* expires_at of the row stored under a key, 0 when there is none
ExpiresAt(rows, key) == IF key \in DOMAIN rows THEN rows[key].expires_at ELSE 0

\* the value of the row stored under a key, undefined when there is none
StoredAt(rows, key) == IF key \in DOMAIN rows THEN rows[key].value ELSE JUndef

\* the answer of a remote that was not asked
NoAnswer == [status |-> 0]

\* one entry of `calls`: the call, what its remote answered, what it returned
\* and the expiry of its cache row when it returned
CallRecord(fn, input, key, a, o, readOk, writeOk) ==
    [fn |-> fn, input |-> input, status |-> a.status,
     answer |-> IF o.remote > 0 THEN a ELSE NoAnswer, outcome |-> o.outcome,
     threw |-> o.threw, result |-> o.value, message |-> o.message,
     remote |-> o.remote, at |-> now, readOk |-> readOk, writeOk |-> writeOk,
     expires |-> ExpiresAt(o.rows, key), writes |-> o.writes,
     stored |-> StoredAt(o.rows, key), cached |-> o.cached]

Returned(record, o) ==
    /\ Len(calls) < MaxCalls
    /\ cache' = o.rows
    /\ calls' = Append(calls, record)
    /\ UNCHANGED <<disasters, nextId, sockets, conn, inbox, req, now, written, got,
                   env, classifier, browser>>

CallExtractLocationOn(D) ==
    \E d \in D, a \in GeminiLocationAnswers, readOk \in BOOLEAN,
       writeOk \in BOOLEAN :
        LET o == extractLocation(d, cache, now, a, readOk, writeOk)
        IN  Returned(CallRecord("extractLocation", d, cacheKey("gemini:location:", d),
                                a, o, readOk, writeOk), o)

CallExtractLocation == CallExtractLocationOn(Descriptions)

CallGeocodeLocation ==
    \E l \in Locations, a \in GeoAnswers, readOk \in BOOLEAN, writeOk \in BOOLEAN :
        LET o == geocodeLocation(l, cache, now, a, readOk, writeOk)
        IN  Returned(CallRecord("geocodeLocation", l, cacheKey("geocode:", l),
                                a, o, readOk, writeOk), o)

CallVerifyImage ==
    \E u \in Images, a \in GeminiImageAnswers, readOk \in BOOLEAN, writeOk \in BOOLEAN :
        LET o == verifyImage(u, cache, now, a, readOk, writeOk, env.GEMINI_API_KEY)
        IN  Returned(CallRecord("verifyImage", u, cacheKey("gemini:verify:", u),
                                a, o, readOk, writeOk), o)

CallFetchTweets ==
    \E q \in Queries, a \in TwitterAnswers, readOk \in BOOLEAN, writeOk \in BOOLEAN :
        LET o == fetchTweets(q, cache, now, a, readOk, writeOk, env.TWITTER_BEARER_TOKEN)
        IN  Returned(CallRecord("fetchTweets", q, cacheKey("twitter:search:", q),
                                a, o, readOk, writeOk), o)

InitAdapters == InitWith(1..NumWatchers, {}, Envs)

NextAdapters ==
    \/ CallExtractLocation
    \/ CallGeocodeLocation
    \/ CallVerifyImage
    \/ CallFetchTweets
    \/ Tick

SpecAdapters == InitAdapters /\ [][NextAdapters]_vars

\* the calls that are followed at once by a call of the same adapter with the
\* same input
Repeated ==
    {i \in 1..(Len(calls) - 1) :
        calls[i].fn = calls[i + 1].fn /\ calls[i].input = calls[i + 1].input}

\* the cache row the first call left, if it was still valid then, is still
\* valid at the second call
NoExpiryBetween(i) ==
    ~(calls[i].at < calls[i].expires /\ calls[i].expires <= calls[i + 1].at)

\* the second call made no remote request and returned what the first returned
SecondServedFromCache(i) ==
    /\ calls[i + 1].remote = 0
    /\ calls[i + 1].threw = calls[i].threw
    /\ calls[i + 1].result = calls[i].result

FirstValueIsCached(i) ==
    \/ calls[i].outcome = "hit"
    \/ calls[i].outcome = "remote" /\ calls[i].writeOk /\ Truthy(calls[i].result)
    \/ calls[i].fn = "verifyImage" /\ calls[i].outcome = "fallback" /\ calls[i].writeOk
    \/ calls[i].outcome = "unconfigured"

-----------------------------------------------------------------------------
(* The access-denial fallback of the monolithic server's geocodeLocation *)

fallbackCoords == <<
    [city |-> <<"m", "u", "m", "b", "a", "i">>, coords |-> <<728777, 190760>>],
    [city |-> <<"d", "e", "l", "h", "i">>, coords |-> <<772090, 286139>>],
    [city |-> <<"b", "a", "n", "g", "a", "l", "o", "r", "e">>, coords |-> <<775946, 129716>>],
    [city |-> <<"c", "h", "e", "n", "n", "a", "i">>, coords |-> <<802707, 130827>>],
    [city |-> <<"k", "o", "l", "k", "a", "t", "a">>, coords |-> <<883639, 225726>>],
    [city |-> <<"h", "y", "d", "e", "r", "a", "b", "a", "d">>, coords |-> <<784867, 173850>>],
    [city |-> <<"p", "u", "n", "e">>, coords |-> <<738563, 185204>>],
    [city |-> <<"a", "h", "m", "e", "d", "a", "b", "a", "d">>, coords |-> <<725714, 230225>>],
    [city |-> <<"l", "u", "c", "k", "n", "o", "w">>, coords |-> <<809462, 268467>>],
    [city |-> <<"j", "a", "i", "p", "u", "r">>, coords |-> <<757873, 269124>>] >>

defaultCoords == <<728777, 190760>>

\* the coordinate of the first table city contained in the lower-cased name,
\* or the default coordinate
fallbackCoordinate(locationName) ==
    LET locationLower == toLowerCase(locationName)
        hits == {i \in 1..Len(fallbackCoords) :
                    includes(locationLower, fallbackCoords[i].city)}
    IN  IF hits # {}
        THEN fallbackCoords[CHOOSE i \in hits : \A j \in hits : i <= j].coords
        ELSE defaultCoords

\* C7: a geocodeLocation call that misses the cache and whose remote answers
\* 403 does not fail and returns the fallback coordinate of its input.
C7_AccessDenialFallsBack ==
    \A i \in 1..Len(calls) :
        (calls[i].fn = "geocodeLocation" /\ calls[i].outcome # "hit"
            /\ calls[i].status = 403)
            => (~calls[i].threw /\ calls[i].result = JArr(fallbackCoordinate(calls[i].input)))

-----------------------------------------------------------------------------
(* Properties of single adapter calls *)

\* the calls of one adapter, as positions of `calls`
CallsOf(fn) == {i \in 1..Len(calls) : calls[i].fn = fn}

\* {authenticityScore: null, isLikelyAuthentic: false, analysis: <text>}
IsDegraded(j) ==
    /\ j.t = "object"
    /\ j.v.authenticityScore = JNull
    /\ j.v.isLikelyAuthentic = JBool(FALSE)
    /\ j.v.analysis.t = "string"

\* call i + 1 repeats call i within the default ttl and the store answers it
RepeatedWithinTtl(i) ==
    /\ i \in Repeated
    /\ calls[i + 1].at < calls[i].at + DefaultTtlHours * MinutesPerHour
    /\ calls[i + 1].readOk

\* C13: a verifyImage call that misses the cache and whose remote attempt
\* fails, a missing GEMINI_API_KEY included, returns the degraded result and
\* writes it to the cache under the image's key, so that a second call on the
\* same image within the ttl is served from the cache.
C13_DegradedResultIsCached ==
    \A i \in CallsOf("verifyImage") :
        calls[i].outcome \in {"fallback", "unconfigured"} =>
            /\ ~calls[i].threw
            /\ IsDegraded(calls[i].result)
            /\ calls[i].writes >= 1
            /\ calls[i].writeOk => calls[i].stored = calls[i].result
            /\ (calls[i].writeOk /\ RepeatedWithinTtl(i)) =>
                   /\ calls[i + 1].outcome = "hit"
                   /\ calls[i + 1].result = calls[i].result

\* the call that a step appends to `calls`
Appended(fn) == Len(calls') = Len(calls) + 1 /\ calls'[Len(calls')].fn = fn

\* C14: a fetchTweets call that misses the cache returns {rateLimit: true},
\* which is not an empty list, when the remote answers 429, and an empty list
\* on any other remote error; in neither case does it throw or write to the
\* cache.
C14_RateLimitMarkerOrEmptyList ==
    /\ [](\A i \in CallsOf("fetchTweets") :
            (calls[i].remote = 1 /\ calls[i].status # 200) =>
                /\ ~calls[i].threw
                /\ calls[i].writes = 0
                /\ IF calls[i].status = 429
                   THEN /\ calls[i].result = JObj([rateLimit |-> JBool(TRUE)])
                        /\ calls[i].result # JArr(<<>>)
                   ELSE calls[i].result = JArr(<<>>))
    /\ [][(Appended("fetchTweets") /\ calls'[Len(calls')].remote = 1
              /\ calls'[Len(calls')].status # 200) => cache' = cache]_vars

\* a search was rate-limited and a repeated search failed otherwise: the
\* first returned the marker, the second an empty list, the cache has no row
C14_Witness ==
    /\ Len(calls) = 2
    /\ calls[1].fn = "fetchTweets" /\ calls[1].status = 429 /\ calls[1].remote = 1
    /\ calls[1].result = RateLimitMarker
    /\ calls[2].fn = "fetchTweets" /\ calls[2].status = 500 /\ calls[2].remote = 1
    /\ calls[2].result = JArr(<<>>)
    /\ cache = EmptyFn

-----------------------------------------------------------------------------
(* extractLocation on many descriptions *)

MaxWords == 3

\* the words the descriptions are made of: the locative keywords in several
\* spellings, two other words and the empty word of a doubled space
Vocabulary ==
    { <<"i", "n">>,
      <<"A", "T">>,
      <<"N", "e", "a", "r">>,
      <<"a", "r", "o", "u", "n", "d">>,
      <<"f", "l", "o", "o", "d">>,
      <<"M", "u", "m", "b", "a", "i">>,
      <<>> }

WordLists == UNION {[1..n -> Vocabulary] : n \in 0..MaxWords}

ManyDescriptions ==
    {join(w, <<" ">>) : w \in WordLists}
        \cup {sFloodInMumbai, sFireNear, sStuckIn, sNoWater}

\* a caller extracts the location of a description
ExtractFirst == Len(calls) = 0 /\ CallExtractLocationOn(ManyDescriptions)

\* and extracts it once more
ExtractAgain == Len(calls) = 1 /\ CallExtractLocationOn({calls[1].input})

InitLocation == InitWith(1..NumWatchers, {}, {FullEnv})

NextLocation ==
    \/ ExtractFirst
    \/ ExtractAgain

SpecLocation == InitLocation /\ [][NextLocation]_vars

\* The tokens of a text, found from the positions of its space characters
SpacePositions(s) == {i \in 1..Len(s) : s[i] = " "}
NumTokens(s) == Cardinality(SpacePositions(s)) + 1

\* the position of the k-th space; 0 for k = 0, Len(s) + 1 past the last one
SpaceAt(s, k) ==
    IF k = 0 THEN 0
    ELSE IF k > Cardinality(SpacePositions(s)) THEN Len(s) + 1
    ELSE CHOOSE p \in SpacePositions(s) :
             Cardinality({q \in SpacePositions(s) : q < p}) = k - 1

Token(s, k) == SubSeq(s, SpaceAt(s, k - 1) + 1, SpaceAt(s, k) - 1)

Prepositions == {<<"i", "n">>, <<"a", "t">>, <<"n", "e", "a", "r">>,
                 <<"a", "r", "o", "u", "n", "d">>}

IsPreposition(t) == \E p \in Prepositions : Len(p) = Len(t) /\ OccursAt(t, p, 1)

\* the whitespace-separated tokens: the tokens that are not empty
WhitespaceTokens(s) ==
    SelectSeq([k \in 1..NumTokens(s) |-> Token(s, k)], LAMBDA t : t # <<>>)

\* up to two tokens of w from position k on, with one space in between
TwoFrom(w, k) ==
    IF k > Len(w) THEN <<>>
    ELSE IF k = Len(w) THEN w[k]
    ELSE w[k] \o <<" ">> \o w[k + 1]

\* C15 as stated: extractLocation never throws; when the remote call fails it
\* returns the two whitespace-separated tokens after the first token that is
\* a locative preposition, and "Unknown Location" exactly when no token is
\* one, the last token included.
C15_TokensAfterAnyPreposition ==
    \A i \in CallsOf("extractLocation") :
        /\ ~calls[i].threw
        /\ calls[i].outcome = "fallback" =>
              LET w == WhitespaceTokens(calls[i].input)
                  hits == {k \in 1..Len(w) : IsPreposition(w[k])}
              IN  /\ hits = {} <=> calls[i].result = JStr(sUnknownLocation)
                  /\ hits # {} =>
                        calls[i].result =
                            JStr(TwoFrom(w, 1 + CHOOSE k \in hits : \A j \in hits : k <= j))

\* C15 as amended: extractLocation never throws; when the remote call fails
\* it splits the input at every single space and returns the up to two
\* tokens after the first token, other than the last, that is a locative
\* preposition, and "Unknown Location" when no token before the last is one.
C15_TokensAfterPrepositionBeforeLast ==
    \A i \in CallsOf("extractLocation") :
        /\ ~calls[i].threw
        /\ calls[i].outcome = "fallback" =>
              LET s == calls[i].input
                  w == [k \in 1..NumTokens(s) |-> Token(s, k)]
                  hits == {k \in 1..(Len(w) - 1) : IsPreposition(w[k])}
              IN  calls[i].result =
                      IF hits = {} THEN JStr(sUnknownLocation)
                      ELSE JStr(TwoFrom(w, 1 + CHOOSE k \in hits : \A j \in hits : k <= j))

\* the remote failed on "We are stuck in", whose only preposition is its last
\* word, and on "Fire NEAR the old bridge"
C15_Witness ==
    /\ Len(calls) = 2
    /\ calls[1].input = sStuckIn /\ calls[1].outcome = "fallback"
    /\ calls[1].result = JStr(sUnknownLocation)
    /\ calls[2].outcome = "fallback"

\* C16: a getCachedData call that the store fails to answer returns null;
\* the adapter goes on as after a miss, with its remote call when it is
\* configured to make one, and throws nothing but a failure of that remote.
C16_StoreErrorOnGetIsAMiss ==
    \A i \in 1..Len(calls) :
        (~calls[i].readOk /\ calls[i].cached # JUndef) =>
            /\ calls[i].cached = JNull
            /\ calls[i].outcome # "hit"
            /\ calls[i].outcome # "unconfigured" => calls[i].remote >= 1
            /\ calls[i].threw =>
                  /\ calls[i].fn = "geocodeLocation"
                  /\ calls[i].remote = 1
                  /\ OccursAt(calls[i].message, sGeocodingFailed, 1)
                  /\ calls[i].answer.status # 200 \/ calls[i].answer.data = <<>>

\* a remote result was cached, and the repeated call, whose lookup the store
\* failed to answer before the row expired, went to the remote again
C16_Witness ==
    \E i \in Repeated :
        /\ calls[i].outcome = "remote" /\ calls[i].writeOk
        /\ Truthy(calls[i].stored)
        /\ calls[i + 1].at < calls[i].expires
        /\ ~calls[i + 1].readOk
        /\ calls[i + 1].remote >= 1
        /\ ~calls[i + 1].threw

\* a text without the whitespace at its ends, found from the positions of
\* its other characters
Inner(s) ==
    LET solid == {i \in 1..Len(s) : s[i] \notin {" ", "\n", "\t"}}
    IN  IF solid = {} THEN <<>>
        ELSE SubSeq(s, CHOOSE i \in solid : \A j \in solid : i <= j,
                       CHOOSE i \in solid : \A j \in solid : i >= j)

\* the remote of call i answered with a result
RemoteSucceeded(i) ==
    LET a == calls[i].answer
    IN  /\ calls[i].remote >= 1
        /\ a.status = 200
        /\ CASE calls[i].fn = "geocodeLocation" -> Len(a.data) > 0
             [] calls[i].fn = "extractLocation" ->
                    a.text.t = "string" /\ Inner(a.text.v) # <<>>
             [] calls[i].fn = "verifyImage" ->
                    /\ a.download
                    /\ a.text.t = "string"
                    /\ Inner(a.text.v) \notin {<<>>, tNull}
             [] OTHER -> TRUE

\* the result the remote of call i answered with
RemoteResult(i) ==
    LET a == calls[i].answer
    IN  CASE calls[i].fn = "geocodeLocation" -> JArr(a.data[1])
          [] calls[i].fn = "extractLocation" -> JStr(Inner(a.text.v))
          [] calls[i].fn = "verifyImage" ->
                 (CASE a.text.v \in {tObject, sFenceOpen \o tObject \o sFenceClose} ->
                           JObj([authenticityScore |-> JNum(85),
                                 isLikelyAuthentic |-> JBool(TRUE),
                                 analysis |-> JStr(<<"o", "k">>)])
                    [] a.text.v = tZero -> JNum(0)
                    [] a.text.v = tFalse -> JBool(FALSE)
                    [] OTHER -> JObj([authenticityScore |-> JNull,
                                      isLikelyAuthentic |-> JNull,
                                      analysis |-> JStr(a.text.v)]))
          [] OTHER ->
                 IF a.data.t = "array" /\ Len(a.data.v) = 1
                 THEN JArr(<< JObj([id |-> a.data.v[1].id, text |-> a.data.v[1].text,
                                    author_id |-> a.data.v[1].author_id,
                                    created_at |-> a.data.v[1].created_at,
                                    username |-> IF a.users.t = "array"
                                                 THEN a.users.v[1].username
                                                 ELSE JUndef]) >>)
                 ELSE JArr(<<>>)

\* C17: when the remote call of an adapter succeeded and the store refuses
\* the cache write, the adapter does not throw and returns the remote result.
C17_StoreErrorOnSetIsSwallowed ==
    \A i \in 1..Len(calls) :
        (RemoteSucceeded(i) /\ ~calls[i].writeOk) =>
            /\ ~calls[i].threw
            /\ calls[i].result = RemoteResult(i)

\* a geocoding and a tweet search whose remotes answered and whose cache
\* writes the store refused have returned their results; the cache is empty
C17_Witness ==
    /\ Len(calls) = 2
    /\ calls[1].fn = "geocodeLocation" /\ calls[2].fn = "fetchTweets"
    /\ \A i \in 1..2 :
          /\ RemoteSucceeded(i) /\ ~calls[i].writeOk
          /\ calls[i].writes = 1
          /\ Truthy(calls[i].result)
    /\ Len(calls[2].result.v) = 1
    /\ cache = EmptyFn

-----------------------------------------------------------------------------
(* The audit trail of a record *)

\* request r has its update committed on record id in this step
UpdateCommits(r, id) ==
    /\ req[r].kind = "put" /\ req[r].id = id
    /\ req[r].pc = "write" /\ req'[r].pc = "written" /\ req'[r].wrote

\* request r has its insert committed as record id in this step
InsertCommits(r, id) ==
    /\ req[r].kind = "post"
    /\ req[r].pc = "write" /\ req'[r].pc = "written" /\ req'[r].wrote
    /\ req'[r].data.id = id

\* C20: a record starts with the single entry "created" by its creator, each
\* committed update appends exactly one entry to the trail, and no other step
\* changes the trail of a record that stays in the store.
C20_AuditTrailGainsOnePerMutation ==
    [][\A id \in DOMAIN disasters' :
          IF id \notin DOMAIN disasters
          THEN \E r \in Reqs :
                  /\ InsertCommits(r, id)
                  /\ disasters'[id].audit_trail =
                         << [action |-> "created", by |-> req[r].user.id] >>
          ELSE IF \E r \in Reqs : UpdateCommits(r, id)
          THEN /\ Len(disasters'[id].audit_trail) = Len(disasters[id].audit_trail) + 1
               /\ SubSeq(disasters'[id].audit_trail, 1, Len(disasters[id].audit_trail))
                      = disasters[id].audit_trail
          ELSE disasters'[id].audit_trail = disasters[id].audit_trail]_vars

-----------------------------------------------------------------------------
(* routes/tools.ts: handleGeocode *)

sApiKeyNotConfigured ==
    <<"A", "P", "I", " ", "k", "e", "y", " ", "n", "o", "t", " ", "c", "o",
      "n", "f", "i", "g", "u", "r", "e", "d">>

sAccessDenied ==
    <<"a", "c", "c", "e", "s", "s", " ", "d", "e", "n", "i", "e", "d">>

sQuotaExceeded ==
    <<"q", "u", "o", "t", "a", " ", "e", "x", "c", "e", "e", "d", "e", "d">>

sNearAccessDenied ==
    <<"n", "e", "a", "r", " ", "a", "c", "c", "e", "s", "s", " ", "d", "e",
      "n", "i", "e", "d">>

\* the catch block: the status code chosen from the text of error.message
geocodeErrorStatus(message) ==
    IF includes(message, sApiKeyNotConfigured) THEN 503
    ELSE IF includes(message, sAccessDenied) THEN 503
    ELSE IF includes(message, sQuotaExceeded) THEN 429
    ELSE IF includes(message, SubSeq(sLocationNotFound, 1, Len(sLocationNotFound) - 2))
    THEN 404
    ELSE 500

\* the `location` fields of the bodies sent to the endpoint
RouteLocations == {JUndef, JStr(sFloodInMumbai), JStr(sNearAccessDenied)}

\* what the two remote services answer while the endpoint runs
RouteGeminiAnswers == {a \in GeminiLocationAnswers : a.text \in {JStr(sMumbai), JUndef}}

RouteGeoAnswers == {a \in GeoAnswers : a.data # <<cOther>>}

\* the entry of `calls` for the endpoint's response
RouteRecord(location, status, g, remote, writes) ==
    [fn |-> "handleGeocode", input |-> location, status |-> status,
     answer |-> NoAnswer, outcome |-> IF status = 200 THEN "ok" ELSE "error",
     threw |-> FALSE, result |-> g.value, message |-> g.message,
     remote |-> remote, at |-> now, readOk |-> TRUE, writeOk |-> TRUE,
     expires |-> 0, writes |-> writes, stored |-> JUndef, cached |-> JUndef]

\* handleGeocode: 400 without a location; otherwise extractLocation, then
\* geocodeLocation on the extracted name, and 200 with the coordinates or the
\* status the catch block chooses
HandleGeocode ==
    \E location \in RouteLocations, ea \in RouteGeminiAnswers, ga \in RouteGeoAnswers,
       readOk \in BOOLEAN, writeOk \in BOOLEAN :
        /\ Cardinality(CallsOf("handleGeocode")) < MaxCalls
        /\ IF ~Truthy(location)
           THEN /\ calls' = Append(calls,
                      RouteRecord(<<>>, 400,
                                  [value |-> JUndef, message |-> <<>>], 0, 0))
                /\ cache' = cache
           ELSE LET e == extractLocation(location.v, cache, now, ea, readOk, writeOk)
                    g == geocodeLocation(e.value.v, e.rows, now, ga, readOk, writeOk)
                IN  /\ calls' = calls \o
                          << CallRecord("extractLocation", location.v,
                                        cacheKey("gemini:location:", location.v),
                                        ea, e, readOk, writeOk),
                             CallRecord("geocodeLocation", e.value.v,
                                        cacheKey("geocode:", e.value.v),
                                        ga, g, readOk, writeOk),
                             RouteRecord(location.v,
                                         IF g.threw THEN geocodeErrorStatus(g.message)
                                         ELSE 200,
                                         g, e.remote + g.remote, e.writes + g.writes) >>
                    /\ cache' = g.rows
        /\ UNCHANGED <<disasters, nextId, sockets, conn, inbox, req, now, written, got,
                       env, classifier, browser>>

InitGeocodeRoute == InitWith(1..NumWatchers, {}, {FullEnv})

NextGeocodeRoute == HandleGeocode

SpecGeocodeRoute == InitGeocodeRoute /\ [][NextGeocodeRoute]_vars

\* C18: a geocodeLocation call that misses the cache throws, returns no
\* coordinate and writes nothing to the cache when the remote finds no match
\* and when the remote fails with anything but an access denial; the endpoint
\* answers 404 in the first case and 500 in the second.
C18_NotFoundAndHardFailure ==
    \A i \in CallsOf("geocodeLocation") :
        (calls[i].remote = 1 /\ ~(calls[i].answer.status = 200 /\ calls[i].answer.data # <<>>)
            /\ calls[i].answer.status # 403) =>
            /\ calls[i].threw
            /\ calls[i].result = JUndef
            /\ calls[i].writes = 0
            /\ calls[i + 1].fn = "handleGeocode"
            /\ calls[i + 1].status = IF calls[i].answer.status = 200 THEN 404 ELSE 500

-----------------------------------------------------------------------------
(* services/geo.ts: getNearbyResources *)

\* .limit(10)
FallbackLimit == 10

MaxResources == 11

\* rows 1..n of the resources table, in the order the store returns them
Rows(n) == [i \in 1..n |-> i]

\* what supabase.rpc('nearby_resources', ...) can do for a table of n rows:
\* resolve with the rows inside the radius, resolve with data null, resolve
\* with an error, or reject
PrimaryAnswers(n) ==
    {[kind |-> "rows", data |-> Rows(k)] : k \in 0..n}
        \cup {[kind |-> k, data |-> <<>>] : k \in {"null", "error", "throws"}}

\* what from("resources").select("*").limit(10) resolves with
FallbackAnswers(n) ==
    {[kind |-> "rows", data |-> Rows(Min(n, FallbackLimit))],
     [kind |-> "null", data |-> <<>>],
     [kind |-> "error", data |-> <<>>]}

\* the fallback of both the error branch and the catch block
resourcesFallback(f) ==
    IF f.kind = "error"
    THEN [value |-> <<>>, log |-> <<>>, queries |-> <<"rpc", "select">>]
    ELSE [value |-> f.data, log |-> <<"resources_fallback">>,
          queries |-> <<"rpc", "select">>]

getNearbyResourcesFallbackOnEmpty(p, f) ==
    IF p.kind \in {"error", "throws"} \/ p.data = <<>> THEN resourcesFallback(f)
    ELSE [value |-> p.data, log |-> <<"resources_mapped">>, queries |-> <<"rpc">>]

getNearbyResources(p, f) ==
    IF p.kind \in {"error", "throws"} THEN resourcesFallback(f)
    ELSE [value |-> p.data, log |-> <<"resources_mapped">>, queries |-> <<"rpc">>]

CallGetNearbyResources ==
    \E n \in 0..MaxResources :
        \E p \in PrimaryAnswers(n), f \in FallbackAnswers(n) :
            LET o == getNearbyResources(p, f)
            IN  /\ Len(calls) < MaxCalls
                /\ calls' = Append(calls,
                       [fn |-> "getNearbyResources", table |-> n, primary |-> p,
                        fallback |-> f, result |-> o.value, log |-> o.log,
                        queries |-> o.queries, threw |-> FALSE])
                /\ UNCHANGED <<disasters, nextId, sockets, conn, inbox, req, cache,
                               now, written, got, env, classifier, browser>>

InitResources == InitWith(1..NumWatchers, {}, {FullEnv})

NextResources == CallGetNearbyResources

SpecResources == InitResources /\ [][NextResources]_vars

-----------------------------------------------------------------------------
(* The handlers on every shape of body: each field present, empty or absent *)

EdgeBodies ==
    { Body(t, d, l) : t \in {JStr(sFlood), JStr(<<>>), JUndef},
                      d \in {JStr(sWater), JStr(<<>>), JUndef},
                      l \in {JStr(sMumbai), JUndef} }

PostEdge == PostBeginWith(Identities, EdgeBodies)
PutEdge == PutBeginWith(Identities, EdgeBodies)

InitBodies == InitWith(1..NumWatchers, Identities, {FullEnv})

NextBodies ==
    \/ Open
    \/ PostEdge
    \/ PutEdge
    \/ Geocode
    \/ Persist
    \/ Resume

SpecBodies == InitBodies /\ [][NextBodies]_vars

\* the body of request r lacks a title or a description, or has an empty one
LacksRequired(r) == ~Truthy(req[r].body.title) \/ ~Truthy(req[r].body.description)

\* C21: a create whose title or description is missing or empty ends at once
\* in ValidationError: the step that takes the request changes neither the
\* store, the cache nor any inbox, and the request never geocodes, never
\* writes and never has an event of its own in an inbox.
C21_InvalidCreateStopsAtValidation ==
    /\ [](\A r \in Reqs :
            (req[r].kind = "post" /\ LacksRequired(r)) =>
                /\ req[r].pc = "done" /\ req[r].outcome = "ValidationError"
                /\ req[r].geocoded = 0
                /\ ~req[r].wrote /\ ~req[r].error /\ req[r].data = NoRow
                /\ \A c \in Conns : \A i \in Events(c) : inbox[c][i].req # r)
    /\ [][\A r \in Reqs :
            (req[r].pc = "idle" /\ req'[r].outcome = "ValidationError") =>
                UNCHANGED <<disasters, nextId, cache, inbox>>]_vars

\* a create with a title and a location name but an empty description was
\* refused while an observer was connected
C21_Witness ==
    \E r \in Reqs, c \in Conns :
        /\ req[r].kind = "post" /\ req[r].outcome = "ValidationError"
        /\ Truthy(req[r].body.title) /\ req[r].body.description = JStr(<<>>)
        /\ Truthy(req[r].body.location_name)
        /\ conn[c] = "open"

-----------------------------------------------------------------------------
(* Updates and deletes of records the store does not hold *)

\* the ownership lookup of request r found no row
TargetAbsent(r) == req[r].kind \in {"put", "delete"} /\ req[r].owner = ""

\* C22: an update or delete whose lookup finds no record ends at once in
\* NotFound, whoever sends it: the step that takes the request changes neither
\* the store, the cache nor any inbox, and the request never geocodes, never
\* writes and never has an event of its own in an inbox.
C22_AbsentTargetIsNotFound ==
    /\ [](\A r \in Reqs :
            TargetAbsent(r) =>
                /\ req[r].pc = "done" /\ req[r].outcome = "NotFound"
                /\ req[r].geocoded = 0
                /\ ~req[r].wrote /\ ~req[r].error /\ req[r].data = NoRow
                /\ \A c \in Conns : \A i \in Events(c) : inbox[c][i].req # r)
    /\ [][\A r \in Reqs :
            (req[r].pc = "idle" /\ req'[r].outcome = "NotFound") =>
                UNCHANGED <<disasters, nextId, cache, inbox>>]_vars

\* an admin's update with a location name and a contributor's delete, both of
\* absent records, were refused while an observer was connected
C22_Witness ==
    \E r \in Reqs, q \in Reqs, c \in Conns :
        /\ TargetAbsent(r) /\ req[r].kind = "put" /\ req[r].user.role = "admin"
        /\ Truthy(req[r].body.location_name) /\ req[r].outcome = "NotFound"
        /\ TargetAbsent(q) /\ req[q].kind = "delete"
        /\ req[q].user.role = "contributor" /\ req[q].outcome = "NotFound"
        /\ conn[c] = "open"

-----------------------------------------------------------------------------
(* The outcome of a mutation whose write the store accepted *)

\* C24: a request whose write changed the store ends in Done, whatever the
\* socket set holds when it broadcasts.
C24_AcceptedWriteEndsInDone ==
    \A r \in Reqs :
        (req[r].pc = "done" /\ req[r].wrote) => req[r].outcome = "Done"

-----------------------------------------------------------------------------
(* The id and the owner of a record *)

\* C25: every record of the store is held under its own id and belongs to
\* the identity whose create inserted it, and no step changes the id or the
\* owner_id of a record that stays in the store.
C25_IdAndOwnerNeverChange ==
    /\ [](\A id \in DOMAIN disasters :
            /\ disasters[id].id = id
            /\ \A r \in Reqs :
                   (req[r].kind = "post" /\ req[r].wrote /\ req[r].data.id = id) =>
                       disasters[id].owner_id = req[r].user.id)
    /\ [][\A id \in DOMAIN disasters \cap DOMAIN disasters' :
              /\ disasters'[id].id = disasters[id].id
              /\ disasters'[id].owner_id = disasters[id].owner_id]_vars

\* a record created in this run was updated by an admin who does not own it,
\* and is still in the store
C25_Witness ==
    \E r \in Reqs, q \in Reqs :
        /\ req[r].kind = "post" /\ req[r].wrote /\ req[r].user.role = "contributor"
        /\ req[q].kind = "put" /\ req[q].wrote /\ req[q].outcome = "Done"
        /\ req[q].id = req[r].data.id
        /\ req[q].user.role = "admin"
        /\ req[q].id \in DOMAIN disasters

-----------------------------------------------------------------------------
(* What disaster:new and disaster:update carry *)

\* C26: every disaster:new and disaster:update event an observer holds
\* carries the row that the write of its request stored.
C26_EventCarriesStoredSnapshot ==
    \A c \in Conns : \A i \in Events(c) :
        LET m == inbox[c][i]
        IN  m.type \in {"disaster:new", "disaster:update"} =>
                /\ m.data.t = "object"
                /\ m.data = JObj(req[m.req].data)
                /\ m.data.v.id = IF m.type = "disaster:new" THEN req[m.req].data.id
                                 ELSE req[m.req].id

-----------------------------------------------------------------------------
(* The required fields of a stored record *)

\* C27: every record of the store has a non-empty title and a non-empty
\* description.
C27_StoredTitleAndDescriptionNonEmpty ==
    \A id \in DOMAIN disasters :
        /\ disasters[id].title.t = "string" /\ disasters[id].title.v # <<>>
        /\ disasters[id].description.t = "string" /\ disasters[id].description.v # <<>>

-----------------------------------------------------------------------------
(* routes/tools.ts: handleSocial *)

sUnknown == <<"u", "n", "k", "n", "o", "w", "n">>

\* the three fixed posts, by id, username and priority
mockSocialPosts ==
    << [id |-> JNum(1), username |-> JStr(<<"c", "i", "t", "i", "z", "e", "n", "1">>), priority |-> FALSE],
       [id |-> JNum(2), username |-> JStr(<<"r", "e", "s", "p", "o", "n", "d", "e", "r">>), priority |-> TRUE],
       [id |-> JNum(3), username |-> JStr(<<"l", "o", "c", "a", "l", "_", "n", "e", "w", "s">>), priority |-> FALSE] >>

\* (tweets as any[]).map(tweet => ({...}))
socialPosts(tweets) ==
    [i \in 1..Len(tweets) |->
        [id |-> tweets[i].v.id,
         username |-> JOr(JOr(tweets[i].v.username, tweets[i].v.author_id),
                          JStr(sUnknown)),
         priority |-> FALSE]]

\* (tweets as any).rateLimit || !Array.isArray(tweets) || tweets.length === 0
UseMock(tweets) ==
    \/ tweets.t = "object" /\ "rateLimit" \in DOMAIN tweets.v /\ Truthy(tweets.v.rateLimit)
    \/ tweets.t # "array"
    \/ Len(tweets.v) = 0

\* an endpoint that answers 429 when the search was rate-limited
handleSocialSurfacesRateLimit(o) ==
    LET tweets == IF o.threw THEN RateLimitMarker ELSE o.value
    IN  IF tweets = RateLimitMarker THEN [status |-> 429, posts |-> <<>>]
        ELSE IF UseMock(tweets) THEN [status |-> 200, posts |-> mockSocialPosts]
        ELSE [status |-> 200, posts |-> socialPosts(tweets.v)]

\* handleSocial, given the outcome o of its fetchTweets call
handleSocial(o) ==
    LET tweets == IF o.threw THEN RateLimitMarker ELSE o.value
    IN  IF UseMock(tweets) THEN [status |-> 200, posts |-> mockSocialPosts]
        ELSE [status |-> 200, posts |-> socialPosts(tweets.v)]

HandleSocial ==
    \E q \in Queries, a \in TwitterAnswers, readOk \in BOOLEAN, writeOk \in BOOLEAN :
        LET o == fetchTweets(q, cache, now, a, readOk, writeOk, env.TWITTER_BEARER_TOKEN)
            response == handleSocial(o)
        IN  /\ Cardinality(CallsOf("handleSocial")) < MaxCalls
            /\ cache' = o.rows
            /\ calls' = calls \o
                   << CallRecord("fetchTweets", q, cacheKey("twitter:search:", q),
                                 a, o, readOk, writeOk),
                      [fn |-> "handleSocial", input |-> q, status |-> response.status,
                       posts |-> response.posts, at |-> now] >>
            /\ UNCHANGED <<disasters, nextId, sockets, conn, inbox, req, now, written,
                           got, env, classifier, browser>>

InitSocial == InitWith(1..NumWatchers, {}, Envs)

NextSocial ==
    \/ HandleSocial
    \/ Tick

SpecSocial == InitSocial /\ [][NextSocial]_vars

\* C23: the social feed endpoint always answers 200 with at least one post.
\* It answers the fixed mock posts when its search was rate-limited, failed,
\* was not configured or yielded no tweet, from the remote or from the cache,
\* and otherwise one post per tweet, in order, with the tweet's id and its
\* username, author id or "unknown".
C23_SocialFeedAlwaysAnswers ==
    \A i \in CallsOf("handleSocial") :
        LET f == calls[i - 1]
            tweets == f.result
        IN  /\ f.fn = "fetchTweets"
            /\ calls[i].status = 200
            /\ calls[i].posts # <<>>
            /\ IF tweets.t = "array" /\ tweets.v # <<>>
               THEN /\ Len(calls[i].posts) = Len(tweets.v)
                    /\ \A k \in 1..Len(tweets.v) :
                           /\ calls[i].posts[k].id = tweets.v[k].v.id
                           /\ calls[i].posts[k].username \in
                                  {tweets.v[k].v.username, tweets.v[k].v.author_id}
                    /\ f.outcome \in {"remote", "hit"}
               ELSE calls[i].posts = mockSocialPosts

\* the endpoint answered a rate-limited search with the mock posts and a
\* search that found a tweet with a post of that tweet
C23_Witness ==
    /\ \E i \in CallsOf("handleSocial") :
           calls[i - 1].outcome = "rateLimited" /\ calls[i].posts = mockSocialPosts
    /\ \E i \in CallsOf("handleSocial") :
           /\ calls[i - 1].outcome = "remote"
           /\ Len(calls[i].posts) = 1 /\ calls[i].posts[1].id = RawTweet.id

-----------------------------------------------------------------------------
(* The lifetime of a cached search result *)

\* C28: a search result that fetchTweets wrote to the cache expires one hour
\* after the write, and a later search of the same query that reads the
\* store an hour or more after the write is not served from the cache.
C28_SearchResultExpiresAfterOneHour ==
    \A i \in CallsOf("fetchTweets") :
        (calls[i].outcome = "remote" /\ calls[i].writeOk) =>
            /\ calls[i].expires = calls[i].at + DefaultTtlHours * MinutesPerHour
            /\ \A j \in CallsOf("fetchTweets") :
                   (j > i /\ calls[j].input = calls[i].input /\ calls[j].readOk
                       /\ calls[j].at >= calls[i].at + DefaultTtlHours * MinutesPerHour) =>
                       calls[j].outcome # "hit"

-----------------------------------------------------------------------------
(* The client hook: sockets that open, fail and close, and manual reconnects *)

NextHook ==
    \/ FireConnect
    \/ FireRetry
    \/ SocketOpens
    \/ SocketCloses
    \/ ManualReconnect
    \/ Unmount

InitHook == InitWith(1..NumWatchers, {}, {FullEnv})

SpecHook == InitHook /\ [][NextHook]_vars

-----------------------------------------------------------------------------
(* The client list: one client that watches, creates and deletes *)

InitClient == InitWith(1..NumWatchers, Identities, {FullEnv})

NextClient ==
    \/ Open
    \/ ClientPost
    \/ ClientDelete
    \/ Persist
    \/ Resume
    \/ ClientFetch
    \/ ClientOnMessage
    \/ ClientOnResponse

SpecClient == InitClient /\ [][NextClient]_vars

\* C30: the client's list holds no record id twice.
C30_ListHoldsEachIdOnce ==
    \A i \in 1..Len(list.items), j \in 1..Len(list.items) :
        i # j => list.items[i].v.id # list.items[j].v.id

====
